---------------------------- MODULE Spec2Model ----------------------------
(***************************************************************************)
(* Model of the project-management front end (src/src/App.tsx): the       *)
(* project-code sequencing, the status classification, the optimistic     *)
(* row panels and the profitability arithmetic.                           *)
(*                                                                         *)
(* JavaScript values are tagged records; a string is a sequence of        *)
(* one-character strings; a number is an IEEE-754 binary64 value, kept    *)
(* exactly as sign, odd integer mantissa and binary exponent.             *)
(***************************************************************************)
EXTENDS Integers, Sequences, FiniteSets, TLC

Max(a, b) == IF a >= b THEN a ELSE b
Min(a, b) == IF a <= b THEN a ELSE b

\* F applied to the values of its arguments, each evaluated once
Strict2(F(_, _), a, b) == CHOOSE r \in {F(u, v) : u \in {a}, v \in {b}} : TRUE
Strict5(F(_, _, _, _, _), a, b, c, d, e) ==
    CHOOSE r \in {F(u, v, w, x, y) :
                     u \in {a}, v \in {b}, w \in {c}, x \in {d}, y \in {e}} : TRUE

(***************************************************************************)
(* Natural numbers of any size: little-endian sequences of limbs in base  *)
(* 2^15, without leading zero limbs; <<>> is zero.                        *)
(***************************************************************************)
BASE == 2^15

RECURSIVE IntBitLen(_)
IntBitLen(n) == IF n = 0 THEN 0 ELSE 1 + IntBitLen(n \div 2)

LimbBits == IntBitLen(BASE) - 1

RECURSIVE BNorm(_)
BNorm(x) ==
    IF x = <<>> THEN <<>>
    ELSE IF x[Len(x)] = 0 THEN BNorm(SubSeq(x, 1, Len(x) - 1)) ELSE x

RECURSIVE BFromNat(_)
BFromNat(n) == IF n = 0 THEN <<>> ELSE <<n % BASE>> \o BFromNat(n \div BASE)

RECURSIVE BToNat(_)
BToNat(x) == IF x = <<>> THEN 0 ELSE x[1] + BASE * BToNat(Tail(x))

Limb(x, i) == IF i <= Len(x) THEN x[i] ELSE 0

RECURSIVE BCmpFrom(_, _, _)
BCmpFrom(a, b, i) ==
    IF i = 0 THEN 0
    ELSE IF Limb(a, i) > Limb(b, i) THEN 1
    ELSE IF Limb(a, i) < Limb(b, i) THEN -1
    ELSE BCmpFrom(a, b, i - 1)

BCmp(a, b) == BCmpFrom(a, b, Max(Len(a), Len(b)))

RECURSIVE BAddFrom(_, _, _, _)
BAddFrom(a, b, i, c) ==
    IF i > Len(a) /\ i > Len(b) THEN (IF c = 0 THEN <<>> ELSE <<c>>)
    ELSE LET s == Limb(a, i) + Limb(b, i) + c
         IN  <<s % BASE>> \o BAddFrom(a, b, i + 1, s \div BASE)

BAdd(a, b) == BAddFrom(a, b, 1, 0)

RECURSIVE BSubFrom(_, _, _, _)
BSubFrom(a, b, i, borrow) ==
    IF i > Len(a) THEN <<>>
    ELSE LET d == a[i] - Limb(b, i) - borrow
         IN  IF d < 0 THEN <<d + BASE>> \o BSubFrom(a, b, i + 1, 1)
             ELSE <<d>> \o BSubFrom(a, b, i + 1, 0)

\* a - b for a >= b
BSub(a, b) == BNorm(BSubFrom(a, b, 1, 0))

RECURSIVE BMulSmallFrom(_, _, _, _)
BMulSmallFrom(a, k, i, c) ==
    IF i > Len(a) THEN (IF c = 0 THEN <<>> ELSE <<c>>)
    ELSE LET p == a[i] * k + c
         IN  <<p % BASE>> \o BMulSmallFrom(a, k, i + 1, p \div BASE)

\* a * k for 0 <= k <= BASE
BMulSmall(a, k) == IF k = 0 THEN <<>> ELSE BMulSmallFrom(a, k, 1, 0)

BShlLimbs(a, n) == IF a = <<>> THEN <<>> ELSE [i \in 1..n |-> 0] \o a

RECURSIVE BMulFrom(_, _, _)
BMulFrom(a, b, i) ==
    IF i > Len(b) THEN <<>>
    ELSE BAdd(BShlLimbs(BMulSmall(a, b[i]), i - 1), BMulFrom(a, b, i + 1))

BMul(a, b) == BMulFrom(a, b, 1)

RECURSIVE BDivSmallFrom(_, _, _, _)
BDivSmallFrom(a, k, i, r) ==
    IF i = 0 THEN <<>>
    ELSE LET cur == r * BASE + a[i]
         IN  BDivSmallFrom(a, k, i - 1, cur % k) \o <<cur \div k>>

\* floor(a / k) for 1 <= k <= BASE
BDivSmall(a, k) == BNorm(BDivSmallFrom(a, k, Len(a), 0))

RECURSIVE BModSmallFrom(_, _, _, _)
BModSmallFrom(a, k, i, r) ==
    IF i = 0 THEN r ELSE BModSmallFrom(a, k, i - 1, (r * BASE + a[i]) % k)

BModSmall(a, k) == BModSmallFrom(a, k, Len(a), 0)

\* a * 2^k
BShl(a, k) == BShlLimbs(BMulSmall(a, 2^(k % LimbBits)), k \div LimbBits)

\* floor(a / 2^k)
BShr(a, k) ==
    IF k \div LimbBits >= Len(a) THEN <<>>
    ELSE BDivSmall(SubSeq(a, (k \div LimbBits) + 1, Len(a)), 2^(k % LimbBits))

\* a mod 2^k
BLowBits(a, k) == BSub(a, BShl(BShr(a, k), k))

BBitLen(a) == IF a = <<>> THEN 0 ELSE LimbBits * (Len(a) - 1) + IntBitLen(a[Len(a)])

RECURSIVE IntTrailingZeros(_)
IntTrailingZeros(n) == IF n % 2 = 1 THEN 0 ELSE 1 + IntTrailingZeros(n \div 2)

RECURSIVE BTrailingZeros(_)
\* number of trailing zero bits of a # 0
BTrailingZeros(a) ==
    IF a[1] = 0 THEN LimbBits + BTrailingZeros(Tail(a)) ELSE IntTrailingZeros(a[1])

BIsOdd(a) == a # <<>> /\ a[1] % 2 = 1

RECURSIVE DigitSearch(_, _, _, _)
\* the largest d in lo..hi with b * d <= r
DigitSearch(r, b, lo, hi) ==
    IF lo = hi THEN lo
    ELSE LET mid == (lo + hi + 1) \div 2
         IN  IF BCmp(BMulSmall(b, mid), r) <= 0
             THEN DigitSearch(r, b, mid, hi)
             ELSE DigitSearch(r, b, lo, mid - 1)

RECURSIVE BDivModFrom(_, _, _, _, _)
BDivModFrom(a, b, i, q, r) ==
    IF i = 0 THEN <<q, r>>
    ELSE LET r2 == BAdd(BShlLimbs(r, 1), IF a[i] = 0 THEN <<>> ELSE <<a[i]>>)
             d  == DigitSearch(r2, b, 0, BASE - 1)
         IN  Strict5(BDivModFrom, a, b, i - 1,
                         BAdd(BShlLimbs(q, 1), IF d = 0 THEN <<>> ELSE <<d>>),
                         BSub(r2, BMulSmall(b, d)))

\* <<floor(a / b), a mod b>> for b # 0
BDivMod(a, b) == BDivModFrom(a, b, Len(a), <<>>, <<>>)

RECURSIVE BPow10(_)
\* 10^n, by squaring
BPow10(n) ==
    IF n = 0 THEN <<1>>
    ELSE IF n % 2 = 1 THEN BMulSmall(BPow10(n - 1), 10)
    ELSE Strict2(BMul, BPow10(n \div 2), BPow10(n \div 2))

(***************************************************************************)
(* JavaScript numbers (binary64).  A finite number is (-1)^s * m * 2^e    *)
(* with m odd (or m = 0, e = 0); results are rounded to MantBits          *)
(* significant bits, ties to even.  Exponent underflow to subnormals is   *)
(* not modelled: the values of the model stay far from 2^-1022.           *)
(***************************************************************************)
MantBits == 53
MaxExp == 1024

NaN == [k |-> "nan"]
Inf(s) == [k |-> "inf", s |-> s]
Fin(s, m, e) == [k |-> "num", s |-> s, m |-> m, e |-> e]
Zero == Fin(0, <<>>, 0)

IsZero(x) == x.k = "num" /\ x.m = <<>>

Canon(s, M, E) ==
    IF M = <<>> THEN Fin(s, <<>>, 0)
    ELSE LET t == BTrailingZeros(M)
             L == BBitLen(M)
         IN  IF L + E > MaxExp THEN Inf(s) ELSE Fin(s, BShr(M, t), E + t)

\* M without its k >= 1 low bits, q, rounded by c = (low bits compared with half)
RoundCut(s, q, c, E) ==
    Canon(s, IF c > 0 \/ (c = 0 /\ BIsOdd(q)) THEN BAdd(q, <<1>>) ELSE q, E)

RoundBits(s, M, E, k) ==
    IF k <= 0 THEN Canon(s, M, E)
    ELSE RoundCut(s, BShr(M, k), BCmp(BLowBits(M, k), BShl(<<1>>, k - 1)), E + k)

\* the binary64 value nearest to (-1)^s * M * 2^E, ties to even
Round(s, M, E) == RoundBits(s, M, E, BBitLen(M) - MantBits)

FromNat(n) == Canon(0, BFromNat(n), 0)

FNeg(x) ==
    IF x.k = "nan" THEN x
    ELSE IF x.k = "inf" THEN Inf(1 - x.s)
    ELSE Fin(1 - x.s, x.m, x.e)

\* (-1)^sx * X * 2^e0 + (-1)^sy * Y * 2^e0, with c = (X compared with Y)
AddSigned(sx, X, sy, Y, e0, c) ==
    Round(IF sx = sy \/ c > 0 THEN sx ELSE IF c = 0 THEN 0 ELSE sy,
          IF sx = sy THEN BAdd(X, Y) ELSE IF c >= 0 THEN BSub(X, Y) ELSE BSub(Y, X),
          e0)

AddAligned(sx, X, sy, Y, e0) == AddSigned(sx, X, sy, Y, e0, BCmp(X, Y))

AddAt(x, y, e0) == AddAligned(x.s, BShl(x.m, x.e - e0), y.s, BShl(y.m, y.e - e0), e0)

\* x + y
FAdd(x, y) ==
    IF x.k = "nan" \/ y.k = "nan" THEN NaN
    ELSE IF x.k = "inf" THEN (IF y.k = "inf" /\ y.s # x.s THEN NaN ELSE x)
    ELSE IF y.k = "inf" THEN y
    ELSE IF x.m = <<>> /\ y.m = <<>> THEN Fin(IF x.s = 1 /\ y.s = 1 THEN 1 ELSE 0, <<>>, 0)
    ELSE IF x.m = <<>> THEN y
    ELSE IF y.m = <<>> THEN x
    ELSE AddAt(x, y, Min(x.e, y.e))

FSub(x, y) == FAdd(x, FNeg(y))

\* x * y
FMul(x, y) ==
    IF x.k = "nan" \/ y.k = "nan" THEN NaN
    ELSE LET s == IF x.s = y.s THEN 0 ELSE 1
         IN  IF x.k = "inf" \/ y.k = "inf"
             THEN (IF IsZero(x) \/ IsZero(y) THEN NaN ELSE Inf(s))
             ELSE IF x.m = <<>> \/ y.m = <<>> THEN Fin(s, <<>>, 0)
             ELSE Round(s, BMul(x.m, y.m), x.e + y.e)

\* the quotient with a sticky bit for the remainder, rounded
RoundSticky(s, qr, E) ==
    Round(s, BAdd(BMulSmall(qr[1], 2), IF qr[2] = <<>> THEN <<>> ELSE <<1>>), E)

RoundQuotAt(s, A, B, E, t) == RoundSticky(s, BDivMod(BShl(A, t), B), E - t - 1)

\* the binary64 value nearest to (-1)^s * (A / B) * 2^E, for A # 0 and B # 0
RoundQuot(s, A, B, E) ==
    RoundQuotAt(s, A, B, E, Max(0, MantBits + 2 + BBitLen(B) - BBitLen(A)))

\* x / y
FDiv(x, y) ==
    IF x.k = "nan" \/ y.k = "nan" THEN NaN
    ELSE LET s == IF x.s = y.s THEN 0 ELSE 1
         IN  IF x.k = "inf" THEN (IF y.k = "inf" THEN NaN ELSE Inf(s))
             ELSE IF y.k = "inf" THEN Fin(s, <<>>, 0)
             ELSE IF y.m = <<>> THEN (IF x.m = <<>> THEN NaN ELSE Inf(s))
             ELSE IF x.m = <<>> THEN Fin(s, <<>>, 0)
             ELSE RoundQuot(s, x.m, y.m, x.e - y.e)

\* x === y on numbers
FEq(x, y) ==
    /\ x.k # "nan" /\ y.k # "nan"
    /\ \/ x = y
       \/ IsZero(x) /\ IsZero(y)

IsNegative(d) == d.k = "num" /\ d.m # <<>> /\ d.s = 1

\* x < y on numbers
FLt(x, y) ==
    IF x.k = "nan" \/ y.k = "nan" THEN FALSE
    ELSE IF FEq(x, y) THEN FALSE
    ELSE IF x.k = "inf" THEN x.s = 1
    ELSE IF y.k = "inf" THEN y.s = 0
    ELSE IsNegative(FSub(x, y))

IsFinite(x) == x.k = "num"

(***************************************************************************)
(* Strings: sequences of one-character strings.                            *)
(***************************************************************************)
DigitChars == <<"0", "1", "2", "3", "4", "5", "6", "7", "8", "9">>
IsDigit(ch) == \E d \in 1..10 : DigitChars[d] = ch
DigitOf(ch) == (CHOOSE d \in 1..10 : DigitChars[d] = ch) - 1
IsWhiteSpace(ch) == ch \in {" ", "\t", "\n"}

Repeat(ch, n) == [i \in 1..n |-> ch]

\* s.startsWith(p)
StartsWith(s, p) == Len(s) >= Len(p) /\ SubSeq(s, 1, Len(p)) = p

\* s.slice(n) for n >= 0
Slice(s, n) == IF n >= Len(s) THEN <<>> ELSE SubSeq(s, n + 1, Len(s))

\* s.padStart(n, ch)
PadStart(s, n, ch) == IF Len(s) >= n THEN s ELSE Repeat(ch, n - Len(s)) \o s

RECURSIVE TrimStart(_)
TrimStart(s) ==
    IF s # <<>> /\ IsWhiteSpace(s[1]) THEN TrimStart(Tail(s)) ELSE s

RECURSIVE TrimEnd(_)
TrimEnd(s) ==
    IF s # <<>> /\ IsWhiteSpace(s[Len(s)]) THEN TrimEnd(SubSeq(s, 1, Len(s) - 1)) ELSE s

\* s.trim()
Trim(s) == TrimEnd(TrimStart(s))

RECURSIVE DigitPrefix(_)
\* the longest prefix of s made of decimal digits
DigitPrefix(s) ==
    IF s # <<>> /\ IsDigit(s[1]) THEN <<s[1]>> \o DigitPrefix(Tail(s)) ELSE <<>>

RECURSIVE BFromDigits(_)
\* the natural number written by a digit string
BFromDigits(ds) ==
    IF ds = <<>> THEN <<>>
    ELSE IF Len(ds) = 1 THEN BFromNat(DigitOf(ds[1]))
    ELSE LET h == Len(ds) \div 2
         IN  Strict2(BAdd, BMul(BFromDigits(SubSeq(ds, 1, Len(ds) - h)), BPow10(h)),
                     BFromDigits(SubSeq(ds, Len(ds) - h + 1, Len(ds))))

RECURSIVE BToDigitsFrom(_)
BToDigitsFrom(a) ==
    IF a = <<>> THEN <<>>
    ELSE BToDigitsFrom(BDivSmall(a, 10)) \o <<DigitChars[BModSmall(a, 10) + 1]>>

\* the decimal digits of a natural number
BToDigits(a) == IF a = <<>> THEN <<"0">> ELSE BToDigitsFrom(a)

RECURSIVE StripZerosEnd(_)
StripZerosEnd(ds) ==
    IF Len(ds) > 1 /\ ds[Len(ds)] = "0" THEN StripZerosEnd(SubSeq(ds, 1, Len(ds) - 1)) ELSE ds

(***************************************************************************)
(* Number <-> string conversions of ECMAScript.                            *)
(***************************************************************************)
\* the binary64 value nearest to s * 10^p (a decimal literal)
ParseDec(sign, s, p) ==
    IF s = <<>> THEN Fin(sign, <<>>, 0)
    ELSE IF p >= 0 THEN Round(sign, BMul(s, BPow10(p)), 0)
    ELSE RoundQuot(sign, s, BPow10(-p), 0)

\* parseInt(str, 10)
ParseInt(str) ==
    LET t    == TrimStart(str)
        neg  == t # <<>> /\ t[1] = "-"
        body == IF t # <<>> /\ t[1] \in {"-", "+"} THEN Tail(t) ELSE t
        ds   == DigitPrefix(body)
    IN  IF ds = <<>> THEN NaN
        ELSE ParseDec(IF neg THEN 1 ELSE 0, BFromDigits(ds), 0)

\* x = A / B exactly, for a finite x
NumerOf(x) == IF x.e >= 0 THEN BShl(x.m, x.e) ELSE x.m
DenomOf(x) == IF x.e >= 0 THEN <<1>> ELSE BShl(<<1>>, -x.e)

\* A / B < 10^n
BelowPow10(A, B, n) ==
    IF n >= 0 THEN BCmp(A, BMul(B, BPow10(n))) < 0
    ELSE BCmp(BMul(A, BPow10(-n)), B) < 0

RECURSIVE DecExpFrom(_, _, _)
DecExpFrom(A, B, n) == IF BelowPow10(A, B, n) THEN n ELSE DecExpFrom(A, B, n + 1)

\* the least n with A / B < 10^n, for A # 0
DecExp(A, B) ==
    DecExpFrom(A, B, (((BBitLen(A) - BBitLen(B)) - 1) * 30103) \div 100000 - 1)

\* whether the decimal s * 10^p reads back as x
ReadsBack(s, p, x) == ParseDec(0, s, p) = x

ShortestResult(n, k, ds) == [digits |-> StripZerosEnd(ds), n |-> n + (Len(ds) - k)]

RECURSIVE ShortestFrom(_, _, _, _, _)

\* ok: which of the k-digit candidates lo, hi read back as x; c: the remainder
\* compared with half
ShortestTest(x, A, B, n, k, lo, hi, c, ok) ==
    IF ok[1] \/ ok[2]
    THEN ShortestResult(n, k, BToDigits(
             IF ok[2] /\ (~ok[1] \/ c > 0 \/ (c = 0 /\ BIsOdd(lo))) THEN hi ELSE lo))
    ELSE ShortestFrom(x, A, B, n, k + 1)

ShortestCand(x, A, B, n, k, lo, hi, inexact, c) ==
    ShortestTest(x, A, B, n, k, lo, hi, c,
                 <<ReadsBack(lo, n - k, x), inexact /\ ReadsBack(hi, n - k, x)>>)

ShortestDiv(x, A, B, n, k, qr, D) ==
    ShortestCand(x, A, B, n, k, qr[1], BAdd(qr[1], <<1>>), qr[2] # <<>>,
                 BCmp(BMulSmall(qr[2], 2), D))

ShortestScaled(x, A, B, n, k, N, D) == ShortestDiv(x, A, B, n, k, BDivMod(N, D), D)

\* Number::toString, step 5: the least k and the k-digit s with s * 10^(n-k) = x,
\* the s nearest to x when there are two
ShortestFrom(x, A, B, n, k) ==
    ShortestScaled(x, A, B, n, k,
                   IF k >= n THEN BMul(A, BPow10(k - n)) ELSE A,
                   IF k >= n THEN B ELSE BMul(B, BPow10(n - k)))

Shortest(x, A, B) == ShortestFrom(x, A, B, DecExp(A, B), 1)

NatToStr(n) == BToDigits(BFromNat(n))

\* Number::toString, steps 6 to 10: the layout of k digits with decimal exponent n
LayoutDigits(ds, k, n) ==
    IF k <= n /\ n <= 21 THEN ds \o Repeat("0", n - k)
    ELSE IF 0 < n /\ n <= 21
    THEN SubSeq(ds, 1, n) \o <<".">> \o SubSeq(ds, n + 1, k)
    ELSE IF -6 < n /\ n <= 0
    THEN <<"0", ".">> \o Repeat("0", -n) \o ds
    ELSE (IF k = 1 THEN ds ELSE <<ds[1], ".">> \o Tail(ds))
         \o <<"e", IF n - 1 < 0 THEN "-" ELSE "+">>
         \o NatToStr(IF n - 1 < 0 THEN 1 - n ELSE n - 1)

Layout(r) == LayoutDigits(r.digits, Len(r.digits), r.n)

\* Number::toString(x), radix 10
NumberToString(x) ==
    IF x.k = "nan" THEN <<"N", "a", "N">>
    ELSE IF x.k = "inf"
    THEN (IF x.s = 1 THEN <<"-">> ELSE <<>>) \o <<"I", "n", "f", "i", "n", "i", "t", "y">>
    ELSE IF x.m = <<>> THEN <<"0">>
    ELSE (IF x.s = 1 THEN <<"-">> ELSE <<>>)
         \o Layout(Shortest(Fin(0, x.m, x.e), NumerOf(x), DenomOf(x)))

\* the integer n with n / 10^f nearest to A / B, the larger one on a tie
FixedInt(A, B, f) ==
    BDivMod(BAdd(BMulSmall(BMul(A, BPow10(f)), 2), B), BMulSmall(B, 2))[1]

FixedLayout(ds, f) ==
    SubSeq(ds, 1, Len(ds) - f)
    \o (IF f = 0 THEN <<>> ELSE <<".">> \o SubSeq(ds, Len(ds) - f + 1, Len(ds)))

\* Number.prototype.toFixed(f) for 0 <= f <= 20
ToFixed(x, f) ==
    IF x.k # "num" \/ (x.m # <<>> /\ ~BelowPow10(NumerOf(x), DenomOf(x), 21))
    THEN NumberToString(x)
    ELSE (IF x.s = 1 /\ x.m # <<>> THEN <<"-">> ELSE <<>>)
         \o FixedLayout(PadStart(BToDigits(FixedInt(NumerOf(x), DenomOf(x), f)), f + 1, "0"), f)

(***************************************************************************)
(* JavaScript values other than numbers.                                   *)
(***************************************************************************)
Null == [k |-> "null"]
Undefined == [k |-> "undefined"]
Str(chars) == [k |-> "str", v |-> chars]
Arr(elems) == [k |-> "array", v |-> elems]

IsNullish(v) == v.k \in {"null", "undefined"}

\* a ?? b
Coalesce(a, b) == IF IsNullish(a) THEN b ELSE a

\* String(v), as a character sequence
ToStringJS(v) ==
    IF v.k = "str" THEN v.v
    ELSE IF v.k = "null" THEN <<"n", "u", "l", "l">>
    ELSE IF v.k = "undefined" THEN <<"u", "n", "d", "e", "f", "i", "n", "e", "d">>
    ELSE NumberToString(v)

UpperChars ==
    <<"A", "B", "C", "D", "E", "F", "G", "H", "I", "J", "K", "L", "M",
      "N", "O", "P", "Q", "R", "S", "T", "U", "V", "W", "X", "Y", "Z">>
LowerChars ==
    <<"a", "b", "c", "d", "e", "f", "g", "h", "i", "j", "k", "l", "m",
      "n", "o", "p", "q", "r", "s", "t", "u", "v", "w", "x", "y", "z">>

LowerChar(ch) ==
    IF \E i \in 1..26 : UpperChars[i] = ch
    THEN LowerChars[CHOOSE i \in 1..26 : UpperChars[i] = ch]
    ELSE ch

\* s.toLowerCase()
ToLowerCase(s) == [i \in 1..Len(s) |-> LowerChar(s[i])]

\* Math.max(a, b)
MathMax(a, b) ==
    IF a.k = "nan" \/ b.k = "nan" THEN NaN
    ELSE IF FLt(a, b) THEN b
    ELSE IF IsZero(a) /\ IsZero(b) /\ b.s = 0 THEN b
    ELSE a

One == FromNat(1)

IsNumber(v) == v.k \in {"num", "nan", "inf"}

\* the exponent an ExponentPart states: digits after an optional sign
ExpValue(r) ==
    IF r # <<>> /\ r[1] \in {"+", "-"}
    THEN (IF r[1] = "-" THEN -1 ELSE 1) * BToNat(BFromDigits(DigitPrefix(Tail(r))))
    ELSE BToNat(BFromDigits(DigitPrefix(r)))

\* whether r begins with an ExponentPart: e or E, an optional sign, a digit
HasExp(r) ==
    /\ Len(r) >= 2 /\ r[1] \in {"e", "E"}
    /\ \/ IsDigit(r[2])
       \/ Len(r) >= 3 /\ r[2] \in {"+", "-"} /\ IsDigit(r[3])

\* int.frac followed by the text after
FloatExp(sign, int, frac, after) ==
    IF int = <<>> /\ frac = <<>> THEN NaN
    ELSE ParseDec(sign, BFromDigits(int \o frac),
                  (IF HasExp(after) THEN ExpValue(Tail(after)) ELSE 0) - Len(frac))

FloatFrac(sign, int, rest, frac) ==
    FloatExp(sign, int, frac,
             IF rest # <<>> /\ rest[1] = "." THEN Slice(rest, 1 + Len(frac)) ELSE rest)

FloatInt(sign, int, rest) ==
    FloatFrac(sign, int, rest,
              IF rest # <<>> /\ rest[1] = "." THEN DigitPrefix(Tail(rest)) ELSE <<>>)

FloatBody(sign, body, int) ==
    IF StartsWith(body, <<"I", "n", "f", "i", "n", "i", "t", "y">>) THEN Inf(sign)
    ELSE FloatInt(sign, int, Slice(body, Len(int)))

FloatSigned(t) ==
    IF t # <<>> /\ t[1] \in {"-", "+"}
    THEN FloatBody(IF t[1] = "-" THEN 1 ELSE 0, Tail(t), DigitPrefix(Tail(t)))
    ELSE FloatBody(0, t, DigitPrefix(t))

\* parseFloat(str): the value of the longest prefix that is a decimal literal
ParseFloat(str) == FloatSigned(TrimStart(str))

\* isFinite(n) ? n : fallback, with the default fallback 0
NumFinite(n) == IF IsFinite(n) THEN n ELSE Zero

\* num(v)
Num(v) ==
    NumFinite(IF IsNumber(v) THEN v ELSE ParseFloat(ToStringJS(Coalesce(v, Str(<<>>)))))

(***************************************************************************)
(* Project code sequencing: getNextProjectCode.                            *)
(***************************************************************************)
\* new Date().getFullYear()
Year == 2025
\* .limit(1000)
QueryLimit == 1000

\* `${year}`: the decimal digits of the year, an integer
YearStr == NatToStr(Year)
\* `${year}-`
YearPrefix == YearStr \o <<"-">>

\* code ILIKE '<year>-%' : SQL NULL matches nothing, letters compare without case
ILikeYear(code) ==
    code.k = "str" /\ StartsWith(ToLowerCase(code.v), ToLowerCase(YearPrefix))

\* the rows of the table the filter keeps, in table order
SelectYearCodes(table) ==
    LET kept == SelectSeq(table, ILikeYear)
    IN  [i \in 1..Len(kept) |-> [code |-> kept[i]]]

Orderings(n) == {f \in [1..n -> 1..n] : \A i, j \in 1..n : i # j => f[i] # f[j]}

\* the orders in which the store returns n rows: every order for up to
\* MaxPermuted rows, table order and its reverse for more
MaxPermuted == 6
RowOrders(n) ==
    IF n <= MaxPermuted THEN Orderings(n)
    ELSE {[i \in 1..n |-> i], [i \in 1..n |-> n + 1 - i]}

\* what the select can return without error: at most QueryLimit of the matching
\* rows, in an order the store chooses (the query states no ORDER BY); of more
\* than QueryLimit matching rows, QueryLimit rows that follow each other in
\* that order, from any row on
QueryData(table) ==
    LET rows == SelectYearCodes(table)
        n    == Len(rows)
        m    == Min(n, QueryLimit)
    IN  {[i \in 1..m |-> rows[f[k + i - 1]]] : f \in RowOrders(n), k \in 1..(n - m + 1)}

Ok(data) == [error |-> FALSE, data |-> Arr(data)]
Failed == [error |-> TRUE, data |-> Null]

\* a loop that keeps the number of the last row instead of the maximum
MaxNUpdateLast(n, maxN) == IF IsFinite(n) THEN n ELSE maxN

\* if (Number.isFinite(n)) maxN = Math.max(maxN, n)
MaxNUpdate(n, maxN) == IF IsFinite(n) THEN MathMax(maxN, n) ELSE maxN

\* the loop body for one row's code string
MaxNStep(code, maxN) ==
    IF StartsWith(code, YearPrefix) THEN MaxNUpdate(ParseInt(Slice(code, 5)), maxN)
    ELSE maxN

RECURSIVE MaxNLoop(_, _, _, _)
\* the for loop over the rows: maxN after rows i..j, taken in this order, the
\* first half of the rows before the second.  maxN is a finite number all the
\* way: it starts at 0 and only finite numbers are taken over
MaxNLoop(data, i, j, maxN) ==
    IF i > j \/ ~IsFinite(maxN) THEN maxN
    ELSE IF i = j
    THEN MaxNStep(ToStringJS(Coalesce(data[i].code, Str(<<>>))), maxN)
    ELSE MaxNLoop(data, (i + j) \div 2 + 1, j,
                  MaxNLoop(data, i, (i + j) \div 2, maxN))

\* what getNextProjectCode returns for a query response
NextProjectCode(resp) ==
    IF resp.error THEN YearPrefix \o <<"0", "0", "1">>
    ELSE LET data == Coalesce(resp.data, Arr(<<>>)).v
         IN  YearPrefix
             \o PadStart(NumberToString(FAdd(MaxNLoop(data, 1, Len(data), Zero), One)), 3, "0")

(***************************************************************************)
(* State of the code sequencing: the projects table and the open          *)
(* CreateProjectForm components.                                           *)
(***************************************************************************)
VARIABLES
    projects,     \* the code column of the stored projects table, in insert order
    origin,       \* per stored row: the form that inserted it, 0 for older rows (history)
    uniqueCodes,  \* whether the store enforces unique project codes
    form,         \* CreateProjectForm state of each open form
    gn,           \* the getNextProjectCode calls in flight of each form
    ins,          \* the insertProject call in flight of each form
    derived,      \* what each form's code was last derived from (history)
    lastSubmit    \* how each form's last handleSubmit ended (history)

codeVars == <<projects, origin, uniqueCodes, form, gn, ins, derived, lastSubmit>>

\* ProjectDetail with its ProfitabilityPanel
VARIABLES
    project,      \* the project row held by ProjectDetail
    bom_items,    \* the stored bom rows of the project, in fetch order
    bomReq,       \* the fetchBom call of ProjectDetail.reloadBom
    bom,          \* the bom state of ProjectDetail, the panel's bom prop
    time_entries, \* the stored time entries of the project, in fetch order
    fin,          \* the fin state of the panel
    timeReq,      \* the fetchTimeEntries call of the panel's effect
    timeSum       \* the timeSum state of the panel

profitVars == <<project, bom_items, bomReq, bom, time_entries, fin, timeReq, timeSum>>

\* App with its HomeDashboard
VARIABLES
    appProjects,      \* the projects state of App, the dashboard's projects prop
    projTab,          \* the projTab state of the dashboard
    activeProjects,   \* the active list of the dashboard's last render
    archivedProjects  \* the archive list of the dashboard's last render

dashVars == <<appProjects, projTab, activeProjects, archivedProjects>>

\* a row panel of ProjectDetail: BomPanel, TimePanel, TasksPanel or QuotePanel
VARIABLES
    panel,        \* which panel is open
    stored,       \* the rows stored for the project, in the order the fetch returns
    nextId,       \* the id the store gives the next inserted row
    items,        \* the panel's local list
    quote,        \* QuotePanel: whether the quote state is set
    calls,        \* the store calls in flight, each with what its handler holds
    nCalls,       \* the number of store calls made so far
    ops           \* the number of create, patch and remove clicks so far

panelVars == <<panel, stored, nextId, items, quote, calls, nCalls, ops>>

\* a call of num
VARIABLES
    numArg,       \* the argument v
    numRet        \* what the call returned, <<>> before it returns

numVars == <<numArg, numRet>>

\* QuotePanel with the columns its totals read
VARIABLES
    quoteStore,   \* the quotes row of the project and its quote_items rows in the store
    quoteRow,     \* the quote state: the header row, or null before it is loaded
    quoteItems,   \* the items state: the rows of the quote, each with its columns
    totals,       \* the memoized totals of the last render
    quoteEdits    \* the number of edits made in the panel so far

quoteVars == <<quoteStore, quoteRow, quoteItems, totals, quoteEdits>>

\* TimePanel with the columns its totals read
VARIABLES
    timeRows,     \* the time_entries rows of the project in the store, oldest first
    timeProject,  \* the project prop of the panel
    panelEntries, \* the entries state of the panel
    timeView,     \* what the last render shows: totalHours, totalCost, the cost of each row
    timeOps       \* the number of clicks and edits made so far

timeVars == <<timeRows, timeProject, panelEntries, timeView, timeOps>>

NoTime ==
    timeRows = <<>> /\ timeProject = <<>> /\ panelEntries = <<>> /\ timeView = <<>> /\ timeOps = 0

\* getOrCreateQuote, called for one project by several reloads
VARIABLES
    quotesTable,  \* the quotes rows of the project in the store
    quoteCalls    \* each call of getOrCreateQuote: where it stands and what it holds

getQuoteVars == <<quotesTable, quoteCalls>>

NoGetQuote == quotesTable = {} /\ quoteCalls = <<>>

\* the page-slicing loop of QuotePanel.exportPdfWithAgb
VARIABLES
    canvas,       \* the canvas html2canvas returned: width and height in pixels
    pageHpx,      \* the height of one page in canvas pixels
    y,            \* the loop variable y
    slices,       \* the slices drawn so far: where each starts and its height
    pdfPages,     \* the number of pages added to the pdf
    slicing       \* where exportPdfWithAgb stands: "loop", "sliced" or "thrown"

sliceVars == <<canvas, pageHpx, y, slices, pdfPages, slicing>>

NoSlice == canvas = <<>> /\ pageHpx = 0 /\ y = 0 /\ slices = <<>> /\ pdfPages = 0 /\ slicing = ""

\* loadScriptOnce and the script elements of document.head
VARIABLES
    head,         \* the script elements appended to document.head: src and load state
    loadCalls     \* each call of loadScriptOnce: its src and how it stands

loadVars == <<head, loadCalls>>

NoLoad == head = <<>> /\ loadCalls = <<>>

\* App: the session and the project list it loads
VARIABLES
    session,      \* the session state of App: Null or a session
    projectList,  \* the projects state of App
    loading,      \* the loading state of App
    appError,     \* whether errorMsg of App is set
    effectDue,    \* session was set and the effect of [session] has not run yet
    runs,         \* the runs of the effect: their session, mounted, and how the fetch stands
    nSessions     \* the number of sessions set so far (history)

appVars == <<session, projectList, loading, appError, effectDue, runs, nSessions>>

NoApp ==
    /\ session = <<>> /\ projectList = <<>> /\ loading = FALSE /\ appError = FALSE
    /\ effectDue = FALSE /\ runs = <<>> /\ nSessions = 0

vars == <<codeVars, profitVars, dashVars, panelVars, numVars, quoteVars, timeVars, getQuoteVars, sliceVars, loadVars, appVars>>

\* the components of an area that is not open hold nothing
NoCode ==
    /\ projects = <<>> /\ origin = <<>> /\ uniqueCodes = FALSE /\ form = <<>>
    /\ gn = <<>> /\ ins = <<>> /\ derived = <<>> /\ lastSubmit = <<>>

NoProfit ==
    /\ project = <<>> /\ bom_items = <<>> /\ bomReq = <<>> /\ bom = <<>>
    /\ time_entries = <<>> /\ fin = <<>> /\ timeReq = <<>> /\ timeSum = <<>>

NoDash ==
    /\ appProjects = <<>> /\ projTab = <<>> /\ activeProjects = <<>>
    /\ archivedProjects = <<>>

NoNum == numArg = <<>> /\ numRet = <<>>

NoQuote ==
    quoteStore = <<>> /\ quoteRow = <<>> /\ quoteItems = <<>> /\ totals = <<>> /\ quoteEdits = 0

NoPanel ==
    /\ panel = <<>> /\ stored = <<>> /\ nextId = 0 /\ items = <<>> /\ quote = FALSE
    /\ calls = {} /\ nCalls = 0 /\ ops = 0

\* bounds of the model
MaxRows == 2
MaxProjects == 2

\* the two users with the form open
Forms == {1, 2}
Kinds == {"mount", "recalc", "submit"}

Chars(digits) == [i \in 1..Len(digits) |-> DigitChars[digits[i] + 1]]
Code(suffix) == Str(YearPrefix \o suffix)

Code001 == Code(<<"0", "0", "1">>)
Code007 == Code(<<"0", "0", "7">>)
Code999 == Code(<<"9", "9", "9">>)
CodeAbc == Code(<<"a", "b", "c">>)
CodeOtherYear == Str(<<"2", "0", "2", "4", "-", "0", "9", "9">>)
\* 2^53 and 10^21 as sequence numbers
CodePow53 == Code(Chars(<<9, 0, 0, 7, 1, 9, 9, 2, 5, 4, 7, 4, 0, 9, 9, 2>>))
CodeE21 == Code(<<"1">> \o Repeat("0", 21))

\* codes found in the code column (a free-text field, nullable)
CandidateCodes ==
    <<Code001, Code007, Code999, CodeAbc, CodeOtherYear, Null, CodePow53, CodeE21>>

RECURSIVE TableOf(_, _)
\* the candidates with an index in S, from index i on
TableOf(S, i) ==
    IF i > Len(CandidateCodes) THEN <<>>
    ELSE (IF i \in S THEN <<CandidateCodes[i]>> ELSE <<>>) \o TableOf(S, i + 1)

\* the tables of at most n distinct candidate codes
Tables(n) ==
    {TableOf(S, 1) : S \in {T \in SUBSET (1..Len(CandidateCodes)) : Cardinality(T) <= n}}

\* the codes year-001, year-002, ... of n projects created one after the other
ManyCodes(n) == [i \in 1..n |-> Code(PadStart(NatToStr(i), 3, "0"))]

\* tables with about as many codes of the year as the query reads, alone or
\* after one other row
ManyTables ==
    {extra \o ManyCodes(QueryLimit + d) :
        extra \in {<<>>, <<Null>>, <<CodeOtherYear>>, <<CodeAbc>>}, d \in {-1, 0, 1}}

Idle == [st |-> "idle"]
Sent == [st |-> "sent"]
Got(resp, snap) == [st |-> "got", resp |-> resp, snap |-> snap]

NotDerived == [from |-> "none"]
DerivedFrom(resp, snap) == [from |-> "query", error |-> resp.error, snap |-> snap]

InitForm ==
    [code |-> <<>>, name |-> FALSE, submitting |-> FALSE, errorMsg |-> FALSE,
     codeBusy |-> TRUE]

\* the state after the forms are mounted: each mount effect has called
\* getNextProjectCode
InitCode(tables, uniq) ==
    /\ projects \in tables
    /\ origin = [i \in 1..Len(projects) |-> 0]
    /\ uniqueCodes \in uniq
    /\ form = [c \in Forms |-> InitForm]
    /\ gn = [c \in Forms |-> [kd \in Kinds |-> IF kd = "mount" THEN Sent ELSE Idle]]
    /\ ins = [c \in Forms |-> Idle]
    /\ derived = [c \in Forms |-> NotDerived]
    /\ lastSubmit = [c \in Forms |-> "none"]

\* the store answers a getNextProjectCode query
QueryServe(c, kd) ==
    /\ gn[c][kd].st = "sent"
    /\ \E resp \in {Failed} \cup {Ok(d) : d \in QueryData(projects)} :
           gn' = [gn EXCEPT ![c][kd] = Got(resp, projects)]
    /\ UNCHANGED <<projects, origin, uniqueCodes, form, ins, derived, lastSubmit>>

\* the mount effect and recalcCode: setForm(code: next); setCodeBusy(false)
CodeResult(c, kd) ==
    /\ kd \in {"mount", "recalc"}
    /\ gn[c][kd].st = "got"
    /\ form' = [form EXCEPT ![c].code = NextProjectCode(gn[c][kd].resp),
                             ![c].codeBusy = FALSE]
    /\ derived' = [derived EXCEPT ![c] = DerivedFrom(gn[c][kd].resp, gn[c][kd].snap)]
    /\ gn' = [gn EXCEPT ![c][kd] = Idle]
    /\ UNCHANGED <<projects, origin, uniqueCodes, ins, lastSubmit>>

\* the recalculate button (disabled while codeBusy): setCodeBusy(true) and the call
RecalcCode(c) ==
    /\ ~form[c].codeBusy
    /\ gn[c]["recalc"].st = "idle"
    /\ form' = [form EXCEPT ![c].codeBusy = TRUE]
    /\ gn' = [gn EXCEPT ![c]["recalc"] = Sent]
    /\ UNCHANGED <<projects, origin, uniqueCodes, ins, derived, lastSubmit>>

(***************************************************************************)
(* Two users create projects through CreateProjectForm.                    *)
(***************************************************************************)
\* the user fills in the name field
TypeName(c) ==
    /\ ~form[c].name
    /\ form' = [form EXCEPT ![c].name = TRUE]
    /\ UNCHANGED <<projects, origin, uniqueCodes, gn, ins, derived, lastSubmit>>

\* form.code.trim() && form.name.trim()
CanSubmit(f) == Trim(f.code) # <<>> /\ f.name

InFlight == Cardinality({c \in Forms : ins[c].st # "idle"})

\* handleSubmit up to the call of insertProject(form)
Submit(c) ==
    /\ CanSubmit(form[c]) /\ ~form[c].submitting
    /\ Len(projects) + InFlight < MaxProjects
    /\ form' = [form EXCEPT ![c].errorMsg = FALSE, ![c].submitting = TRUE]
    /\ ins' = [ins EXCEPT ![c] = [st |-> "sent", code |-> Str(form[c].code)]]
    /\ UNCHANGED <<projects, origin, uniqueCodes, gn, derived, lastSubmit>>

\* the store takes the insert: a row with a code already stored is rejected when
\* the table has a unique constraint on code
InsertServe(c) ==
    /\ ins[c].st = "sent"
    /\ IF uniqueCodes /\ \E i \in 1..Len(projects) : projects[i] = ins[c].code
       THEN /\ ins' = [ins EXCEPT ![c] = [st |-> "got", error |-> TRUE]]
            /\ UNCHANGED <<projects, origin>>
       ELSE /\ projects' = Append(projects, ins[c].code)
            /\ origin' = Append(origin, c)
            /\ ins' = [ins EXCEPT ![c] = [st |-> "got", error |-> FALSE]]
    /\ UNCHANGED <<uniqueCodes, form, gn, derived, lastSubmit>>

\* handleSubmit after insertProject: onCreated and the call of getNextProjectCode,
\* or the catch and finally blocks when insertProject threw
InsertDone(c) ==
    /\ ins[c].st = "got"
    /\ ins' = [ins EXCEPT ![c] = Idle]
    /\ IF ins[c].error
       THEN /\ form' = [form EXCEPT ![c].errorMsg = TRUE, ![c].submitting = FALSE]
            /\ lastSubmit' = [lastSubmit EXCEPT ![c] = "conflict"]
            /\ UNCHANGED gn
       ELSE /\ gn' = [gn EXCEPT ![c]["submit"] = Sent]
            /\ UNCHANGED <<form, lastSubmit>>
    /\ UNCHANGED <<projects, origin, uniqueCodes, derived>>

\* handleSubmit after getNextProjectCode: setForm with the next code and an
\* empty name, then the finally block
SubmitCodeResult(c) ==
    /\ gn[c]["submit"].st = "got"
    /\ form' = [form EXCEPT ![c].code = NextProjectCode(gn[c]["submit"].resp),
                             ![c].name = FALSE,
                             ![c].submitting = FALSE]
    /\ derived' = [derived EXCEPT
                       ![c] = DerivedFrom(gn[c]["submit"].resp, gn[c]["submit"].snap)]
    /\ lastSubmit' = [lastSubmit EXCEPT ![c] = "created"]
    /\ gn' = [gn EXCEPT ![c]["submit"] = Idle]
    /\ UNCHANGED <<projects, origin, uniqueCodes, ins>>

(***************************************************************************)
(* Claims about the two forms.                                             *)
(***************************************************************************)
HasDuplicateCodes == \E i, j \in 1..Len(projects) : i # j /\ projects[i] = projects[j]

\* C2: two forms that derived their codes from the same snapshot of the stored
\* codes hold the same code, and two stored projects carry the same code only
\* when the store does not enforce unique codes
C2_SameSnapshotSameCode ==
    /\ \A c, d \in Forms :
           (/\ derived[c].from = "query" /\ ~derived[c].error
            /\ derived[d].from = "query" /\ ~derived[d].error
            /\ derived[c].snap = derived[d].snap)
           => form[c].code = form[d].code
    /\ HasDuplicateCodes => ~uniqueCodes

\* both forms derived the same code from the same snapshot, and both projects
\* were stored with it
C2_Witness ==
    /\ \E i, j \in 1..Len(projects) :
           origin[i] = 1 /\ origin[j] = 2 /\ projects[i] = projects[j]
    /\ lastSubmit[1] = "created" /\ lastSubmit[2] = "created"
    /\ derived[1].from = "query" /\ derived[2].from = "query"
    /\ derived[1].snap = derived[2].snap /\ Len(derived[1].snap) = 2

\* C3: a handleSubmit whose insert the store rejected as a conflict recomputes
\* the code and retries, so no handleSubmit ends with the conflict unresolved
C3_ConflictRetried == \A c \in Forms : lastSubmit[c] # "conflict"

(***************************************************************************)
(* The next code stated over the stored codes, in exact arithmetic.        *)
(***************************************************************************)
\* the sequence number a stored code carries for this year, as a natural
\* number of any size; <<>> (zero) when it carries none
ExactSuffix(code) ==
    IF code.k = "str" /\ StartsWith(code.v, YearPrefix)
    THEN BFromDigits(DigitPrefix(Slice(code.v, Len(YearPrefix))))
    ELSE <<>>

RECURSIVE ExactMax(_)
\* the maximum sequence number of a table
ExactMax(table) ==
    IF table = <<>> THEN <<>>
    ELSE IF BCmp(ExactSuffix(table[1]), ExactMax(Tail(table))) > 0
    THEN ExactSuffix(table[1])
    ELSE ExactMax(Tail(table))

\* the decimal digits of max + 1
ExactNextDigits(table) == BToDigits(BAdd(ExactMax(table), <<1>>))

\* form 1 holds the code derived from a successful query
DerivedOk1 == derived[1].from = "query" /\ ~derived[1].error

\* C4: the code derived from a table is "year-" followed by (m + 1) padded with
\* zeros to at least 3 digits, m the maximum sequence number among the codes of
\* the year (0 when there is none)
C4_NextIsMaxPlusOnePadded ==
    DerivedOk1 =>
        form[1].code = YearPrefix \o PadStart(ExactNextDigits(derived[1].snap), 3, "0")

\* C5: when the maximum sequence number is 999 or larger the derived code carries
\* all digits of max + 1 after the "year-" prefix
C5_FullNumberFrom999 ==
    (DerivedOk1 /\ BCmp(ExactMax(derived[1].snap), BFromNat(999)) >= 0) =>
        /\ StartsWith(form[1].code, YearPrefix)
        /\ Slice(form[1].code, Len(YearPrefix)) = ExactNextDigits(derived[1].snap)

\* C25: when the query succeeded, the sequence number of the derived code is
\* strictly greater than that of every stored code of the year, and the derived
\* code equals no stored code, however many codes are stored
C25_NextAboveEveryStoredCode ==
    DerivedOk1 =>
        \A i \in 1..Len(derived[1].snap) :
            LET code == derived[1].snap[i]
            IN  (code.k = "str" /\ StartsWith(code.v, YearPrefix)) =>
                    /\ BCmp(ExactSuffix(Str(form[1].code)), ExactSuffix(code)) > 0
                    /\ form[1].code # code.v

\* "year-" followed by at least 3 characters, all of them digits
IsValidCode(s) ==
    /\ StartsWith(s, YearPrefix)
    /\ Len(s) >= Len(YearPrefix) + 3
    /\ \A i \in (Len(YearPrefix) + 1)..Len(s) : IsDigit(s[i])

\* C6: whatever the query returns, the derived code is "year-" followed by at
\* least 3 digits, and it is "year-001" when the query returned an error
C6_AlwaysValidCode ==
    derived[1].from = "query" =>
        /\ IsValidCode(form[1].code)
        /\ derived[1].error => form[1].code = YearPrefix \o <<"0", "0", "1">>

(***************************************************************************)
(* Profitability: the aggregations of ProfitabilityPanel.                  *)
(***************************************************************************)
FinFields ==
    {"quote_total_net", "hourly_rate", "hours_planned", "hours_actual",
     "other_costs", "invoiced_net", "payments_received"}

\* the fin state taken from the project row
FinOf(p) == [f \in FinFields |-> Coalesce(p[f], Zero)]

\* the reduce with a missing qty taken as 1, the default of addBomItem
RECURSIVE BomReduceQtyOne(_, _, _)
BomReduceQtyOne(rows, i, s) ==
    IF i > Len(rows) THEN s
    ELSE BomReduceQtyOne(rows, i + 1,
                         FAdd(s, FMul(Num(Coalesce(rows[i].qty, One)),
                                      Num(rows[i].unit_price_net))))

\* bom.reduce((s, it) => s + num(it.qty) * num(it.unit_price_net), 0)
RECURSIVE BomReduce(_, _, _)
BomReduce(rows, i, s) ==
    IF i > Len(rows) THEN s
    ELSE BomReduce(rows, i + 1,
                   FAdd(s, FMul(Num(rows[i].qty), Num(rows[i].unit_price_net))))

BomTotal(rows) == BomReduce(rows, 1, Zero)

\* entries.reduce((s, e) => s + num(e.hours), 0)
RECURSIVE HoursReduce(_, _, _)
HoursReduce(entries, i, s) ==
    IF i > Len(entries) THEN s
    ELSE HoursReduce(entries, i + 1, FAdd(s, Num(entries[i].hours)))

\* e.hourly_rate ?? project.hourly_rate, with the operands exchanged
EntryRateProjectFirst(e, p) == Coalesce(p.hourly_rate, e.hourly_rate)

\* e.hourly_rate ?? project.hourly_rate
EntryRate(e, p) == Coalesce(e.hourly_rate, p.hourly_rate)

\* entries.reduce((s, e) => s + num(e.hours) * num(e.hourly_rate ?? project.hourly_rate), 0)
RECURSIVE CostReduce(_, _, _, _)
CostReduce(entries, p, i, s) ==
    IF i > Len(entries) THEN s
    ELSE CostReduce(entries, p, i + 1,
                    FAdd(s, FMul(Num(entries[i].hours), Num(EntryRate(entries[i], p)))))

\* the object given to setTimeSum
TimeSumOf(entries, p) ==
    [hours |-> HoursReduce(entries, 1, Zero), cost |-> CostReduce(entries, p, 1, Zero)]

\* a number used as a condition: false for 0, -0 and NaN
Truthy(n) == ~(n.k = "nan" \/ IsZero(n))

Hundred == FromNat(100)

\* a planned cost that leaves out the other costs
PlannedCostWithoutOther(f, bomTotal) ==
    FAdd(FMul(Num(f.hours_planned), Num(f.hourly_rate)), Num(bomTotal))

PlannedCost(f, bomTotal) ==
    FAdd(FAdd(FMul(Num(f.hours_planned), Num(f.hourly_rate)), Num(bomTotal)),
         Num(f.other_costs))

\* an actual cost taken from the manually entered hours
ActualCostFromHoursActual(f, ts, bomTotal) ==
    FAdd(FAdd(FMul(Num(f.hours_actual), Num(f.hourly_rate)), Num(bomTotal)),
         Num(f.other_costs))

ActualCost(f, ts, bomTotal) ==
    FAdd(FAdd(Num(ts.cost), Num(bomTotal)), Num(f.other_costs))

\* num(revenue) ? (profit / num(revenue)) * 100 : 0
Margin(profit, revenue) ==
    IF Truthy(Num(revenue)) THEN FMul(FDiv(profit, Num(revenue)), Hundred) ELSE Zero

\* the one-character string U+2014
Dash == <<"mdash">>

\* isFinite(m) ? m.toFixed(1) + " %" : the dash
MarginKPI(m) == IF IsFinite(m) THEN ToFixed(m, 1) \o <<" ", "%">> ELSE Dash

(***************************************************************************)
(* ProfitabilityPanel of an open project.                                  *)
(***************************************************************************)
\* bounds of the model
MaxBom == 3
MaxEntries == 2
MaxEdits == 1

Dec(m, p) == ParseDec(0, BFromNat(m), p)

\* a project that has no finance data yet, and one that has
ProjectNew == [f \in FinFields |-> Null]
ProjectFin ==
    [quote_total_net |-> FromNat(200), hourly_rate |-> FromNat(65),
     hours_planned |-> FromNat(2), hours_actual |-> FromNat(5),
     other_costs |-> FromNat(10), invoiced_net |-> FromNat(1000),
     payments_received |-> FromNat(1200)]

BomLines ==
    <<[qty |-> One, unit_price_net |-> Dec(1, -1)],
      [qty |-> One, unit_price_net |-> Dec(2, -1)],
      [qty |-> One, unit_price_net |-> Dec(3, -1)]>>

\* stored rows, some without qty or without unit_price_net
BomRows ==
    BomLines \o
    <<[qty |-> Null, unit_price_net |-> FNeg(FromNat(5))],
      [qty |-> FromNat(2), unit_price_net |-> Undefined]>>

EntryRows ==
    <<[hours |-> FromNat(2), hourly_rate |-> FromNat(80)],
      [hours |-> Dec(15, -1), hourly_rate |-> Null],
      [hours |-> One, hourly_rate |-> Zero]>>

\* the lists of at most n rows of cands, without repetition, in any order
Arrangements(cands, n) ==
    UNION {{[i \in 1..k |-> cands[f[i]]] :
               f \in {g \in [1..k -> 1..Len(cands)] :
                         \A i, j \in 1..k : i # j => g[i] # g[j]}} :
           k \in 0..Min(n, Len(cands))}

\* what a user types into a NumberInput
InputTexts == {<<>>, <<"2", "5", "0", ".", "5">>, <<"-", "5", "0">>}

\* NumberInput: onChange(num(e.target.value))
NumberInputValues == {Num(Str(t)) : t \in InputTexts}

\* the panel is mounted with the project and the loaded bom; its effect has
\* called fetchTimeEntries
InitProfit ==
    /\ project \in {ProjectNew, ProjectFin}
    /\ \/ bom \in Arrangements(BomLines, MaxBom) /\ time_entries = <<>>
       \/ bom = <<>> /\ time_entries \in Arrangements(EntryRows, MaxEntries)
    /\ bom_items = bom
    /\ bomReq = Idle
    /\ fin = FinOf(project)
    /\ timeReq = Sent
    /\ timeSum = [hours |-> Zero, cost |-> Zero]

\* the fields of fin that differ from the project row
Edited(f) == {x \in FinFields : f[x] # Coalesce(project[x], Zero)}

\* a NumberInput of the panel: setFin((s) => ({ ...s, [field]: v }))
SetFin(field, v) ==
    /\ Cardinality(Edited([fin EXCEPT ![field] = v])) <= MaxEdits
    /\ fin' = [fin EXCEPT ![field] = v]
    /\ UNCHANGED <<project, bom_items, bomReq, bom, time_entries, timeReq, timeSum>>

\* the store answers fetchTimeEntries with the rows or with an error
TimeFetchServe ==
    /\ timeReq.st = "sent"
    /\ \E resp \in {Failed, Ok(time_entries)} :
           timeReq' = Got(resp, time_entries)
    /\ UNCHANGED <<project, bom_items, bomReq, bom, time_entries, fin, timeSum>>

\* the effect continues: setTimeSum({ hours, cost }), or catch {}
TimeSumResult ==
    /\ timeReq.st = "got"
    /\ timeSum' = IF timeReq.resp.error THEN timeSum
                  ELSE TimeSumOf(timeReq.resp.data.v, project)
    /\ timeReq' = Idle
    /\ UNCHANGED <<project, bom_items, bomReq, bom, time_entries, fin>>

\* ProjectDetail is mounted: its effect has called reloadBom, the panel's
\* effect fetchTimeEntries
InitBom ==
    /\ project \in {ProjectNew, ProjectFin}
    /\ bom_items \in Arrangements(BomRows, MaxBom)
    /\ bomReq = Sent
    /\ bom = <<>>
    /\ time_entries = <<>>
    /\ fin = FinOf(project)
    /\ timeReq = Sent
    /\ timeSum = [hours |-> Zero, cost |-> Zero]

\* the store answers fetchBom with the rows or with an error
BomFetchServe ==
    /\ bomReq.st = "sent"
    /\ \E resp \in {Failed, Ok(bom_items)} : bomReq' = Got(resp, bom_items)
    /\ UNCHANGED <<project, bom_items, bom, time_entries, fin, timeReq, timeSum>>

\* reloadBom continues: setBom(rows); a thrown error leaves bom as it is
BomLoaded ==
    /\ bomReq.st = "got"
    /\ bom' = IF bomReq.resp.error THEN bom ELSE bomReq.resp.data.v
    /\ bomReq' = Idle
    /\ UNCHANGED <<project, bom_items, time_entries, fin, timeReq, timeSum>>

\* what the panel renders
bomTotal == BomTotal(bom)
plannedCost == PlannedCost(fin, bomTotal)
actualCost == ActualCost(fin, timeSum, bomTotal)
\* a planned profit that is never negative
plannedProfitClamped ==
    IF FLt(Num(fin.quote_total_net), plannedCost) THEN Zero
    ELSE FSub(Num(fin.quote_total_net), plannedCost)
plannedProfit == FSub(Num(fin.quote_total_net), plannedCost)
actualProfit == FSub(Num(fin.invoiced_net), actualCost)
plannedMargin == Margin(plannedProfit, fin.quote_total_net)
actualMargin == Margin(actualProfit, fin.invoiced_net)
PlanMarge == MarginKPI(plannedMargin)
IstMarge == MarginKPI(actualMargin)
\* an outstanding balance that is never negative
outstandingClamped ==
    IF FLt(Num(fin.invoiced_net), Num(fin.payments_received)) THEN Zero
    ELSE FSub(Num(fin.invoiced_net), Num(fin.payments_received))
\* KPI "Offen (Rechnung - Zahlung)": num(fin.invoiced_net) - num(fin.payments_received)
outstanding == FSub(Num(fin.invoiced_net), Num(fin.payments_received))

(***************************************************************************)
(* Claims about the profitability figures.                                 *)
(***************************************************************************)
\* C1: whatever the profit is, when the revenue (the quote total for the plan
\* margin, the invoiced total for the actual margin) is exactly zero, the
\* margin KPI shows the placeholder, not a percentage
C1_ZeroRevenueShowsPlaceholder ==
    /\ IsZero(Num(fin.quote_total_net)) => PlanMarge = Dash
    /\ IsZero(Num(fin.invoiced_net)) => IstMarge = Dash

\* the rate the statement gives an entry: its own rate unless that is null or
\* absent, the project's rate only then
StatedRate(e, p) ==
    IF e.hourly_rate \in {Null, Undefined} THEN p.hourly_rate ELSE e.hourly_rate

\* the sum of hours x stated rate over the entries from the i-th on
RECURSIVE StatedCost(_, _, _)
StatedCost(entries, p, i) ==
    IF i > Len(entries) THEN Zero
    ELSE FAdd(FMul(Num(entries[i].hours), Num(StatedRate(entries[i], p))),
              StatedCost(entries, p, i + 1))

\* C7: the time cost the panel stores when its fetch succeeds is the sum over
\* the fetched entries of hours x rate, the rate being the entry's own rate
\* when that is non-null and the project's rate otherwise
C7_TimeCostRatePrecedence ==
    [][(timeReq.st = "got" /\ ~timeReq.resp.error /\ timeReq'.st = "idle")
          => timeSum'.cost = StatedCost(timeReq.snap, project, 1)]_vars

\* the fetch succeeded for a project with rate 65 that has an entry with its
\* own rate 80 and an entry without a rate: 2 x 80 + 1.5 x 65 = 257.5
C7_Witness ==
    /\ timeReq.st = "idle"
    /\ project.hourly_rate = FromNat(65)
    /\ \E i \in 1..Len(time_entries) : time_entries[i].hourly_rate = FromNat(80)
    /\ \E i \in 1..Len(time_entries) : time_entries[i].hourly_rate = Null
    /\ timeSum.cost = Dec(2575, -1)

\* C10: the material total is the same for every reordering of the lines
C10_TotalSameForEveryOrder ==
    \A f \in Orderings(Len(bom)) :
        BomTotal([i \in 1..Len(bom) |-> bom[f[i]]]) = bomTotal

\* the list without its i-th line
WithoutLine(rows, i) == SubSeq(rows, 1, i - 1) \o SubSeq(rows, i + 1, Len(rows))

\* the line with its null or missing fields replaced by 0
ZeroFilled(line) ==
    [qty |-> Coalesce(line.qty, Zero), unit_price_net |-> Coalesce(line.unit_price_net, Zero)]

\* C11: a line whose qty or unit_price_net is null or missing contributes 0:
\* the material total is the total of the list with that field replaced by 0
\* and the total of the list without the line
C11_NullLineContributesZero ==
    \A i \in 1..Len(bom) :
        (IsNullish(bom[i].qty) \/ IsNullish(bom[i].unit_price_net)) =>
            /\ bomTotal = BomTotal([bom EXCEPT ![i] = ZeroFilled(bom[i])])
            /\ bomTotal = BomTotal(WithoutLine(bom, i))

\* the loaded bom has a line without qty but with a price between two
\* priced lines
C11_Witness ==
    /\ bomReq.st = "idle"
    /\ Len(bom) = 3
    /\ bom[2].qty = Null /\ ~IsZero(Num(bom[2].unit_price_net))
    /\ ~IsNullish(bom[1].qty) /\ ~IsNullish(bom[1].unit_price_net)
    /\ ~IsZero(bomTotal)

(***************************************************************************)
(* Status classification: isArchived and the lists of HomeDashboard.       *)
(***************************************************************************)
Abgeschlossen == <<"a", "b", "g", "e", "s", "c", "h", "l", "o", "s", "s", "e", "n">>
NichtBeauftragt ==
    <<"n", "i", "c", "h", "t", " ", "b", "e", "a", "u", "f", "t", "r", "a", "g", "t">>

\* s === "abgeschlossen" || s === "nicht beauftragt"
IsArchivedValue(s) == s = Abgeschlossen \/ s = NichtBeauftragt

\* isArchived without the conversion to lower case
IsArchivedAsWritten(status) == IsArchivedValue(ToStringJS(Coalesce(status, Str(<<>>))))

\* isArchived(status)
IsArchived(status) ==
    IsArchivedValue(ToLowerCase(ToStringJS(Coalesce(status, Str(<<>>)))))

RECURSIVE FilterArchivedWithStatus(_, _, _)
\* lists that take only the projects that have a status
FilterArchivedWithStatus(rows, archived, i) ==
    IF i > Len(rows) THEN <<>>
    ELSE (IF ~IsNullish(rows[i].status) /\ IsArchived(rows[i].status) = archived
          THEN <<rows[i]>> ELSE <<>>)
             \o FilterArchivedWithStatus(rows, archived, i + 1)

\* rows.filter((p) => isArchived(p.status) === archived)
RECURSIVE FilterArchived(_, _, _)
FilterArchived(rows, archived, i) ==
    IF i > Len(rows) THEN <<>>
    ELSE (IF IsArchived(rows[i].status) = archived THEN <<rows[i]>> ELSE <<>>)
             \o FilterArchived(rows, archived, i + 1)

\* ProjectList.filtered: items.filter((p) => tab === "abgeschlossen"
\*     ? p.status === "abgeschlossen" : p.status !== "abgeschlossen")
RECURSIVE Filtered(_, _, _)
Filtered(its, tab, i) ==
    IF i > Len(its) THEN <<>>
    ELSE (IF (its[i].status = Str(Abgeschlossen)) = (tab = "abgeschlossen")
          THEN <<its[i]>> ELSE <<>>)
             \o Filtered(its, tab, i + 1)

\* bound of the model
MaxDash == 2

StatusValues ==
    {Null, Undefined, Str(<<>>), Str(<<"N", "e", "u">>),
     Str(Abgeschlossen), Str(<<"A">> \o Tail(Abgeschlossen)),
     Str(Abgeschlossen \o <<" ">>),
     Str(<<"N", "I", "C", "H", "T", " ", "B", "E", "A", "U", "F", "T", "R", "A", "G", "T">>)}

InitDash ==
    /\ appProjects = <<>>
    /\ projTab = "active"
    /\ activeProjects = <<>>
    /\ archivedProjects = <<>>

\* the render of HomeDashboard with the projects rows
RenderDashboard(rows) ==
    /\ activeProjects' = FilterArchived(rows, FALSE, 1)
    /\ archivedProjects' = FilterArchived(rows, TRUE, 1)

\* App.handleCreated: setProjects((prev) => [p, ...prev])
HandleCreated(status) ==
    /\ Len(appProjects) < MaxDash
    /\ appProjects' = <<[id |-> Len(appProjects) + 1, status |-> status]>> \o appProjects
    /\ RenderDashboard(appProjects')
    /\ UNCHANGED projTab

\* App.handleUpdated: setProjects((prev) => prev.map((x) => (x.id === p.id ? p : x)))
HandleUpdated(id, status) ==
    /\ \E i \in 1..Len(appProjects) : appProjects[i].id = id
    /\ appProjects' =
           [i \in 1..Len(appProjects) |->
               IF appProjects[i].id = id THEN [id |-> id, status |-> status]
               ELSE appProjects[i]]
    /\ RenderDashboard(appProjects')
    /\ UNCHANGED projTab

\* the tab buttons: setProjTab
SetProjTab(tab) ==
    /\ projTab' = tab
    /\ RenderDashboard(appProjects)
    /\ UNCHANGED appProjects

\* the rows given to ProjectsTable
TableProjects == IF projTab = "active" THEN activeProjects ELSE archivedProjects

(***************************************************************************)
(* Claims about the status classification.                                 *)
(***************************************************************************)
\* the same character, or the two cases of one letter
SameLetter(a, b) ==
    \/ a = b
    \/ \E k \in 1..26 : {a, b} = {UpperChars[k], LowerChars[k]}

\* a string that reads as one of the archived values when case is ignored
StatedArchived(status) ==
    /\ status.k = "str"
    /\ \E a \in {Abgeschlossen, NichtBeauftragt} :
           /\ Len(status.v) = Len(a)
           /\ \A i \in 1..Len(a) : SameLetter(status.v[i], a[i])

\* C9: every project of the dashboard is classified: it is in the archive
\* list exactly when its status, case ignored, is "abgeschlossen" or
\* "nicht beauftragt", and in the active list for every other string and for
\* null and undefined
C9_ArchivedIffArchivedValue ==
    \A i \in 1..Len(appProjects) :
        LET p == appProjects[i]
        IN  /\ (\E j \in 1..Len(archivedProjects) : archivedProjects[j] = p)
                 <=> StatedArchived(p.status)
            /\ (\E j \in 1..Len(activeProjects) : activeProjects[j] = p)
                 <=> ~StatedArchived(p.status)

\* "Abgeschlossen" is in the archive list and a project without status in the
\* active list
C9_Witness ==
    /\ \E j \in 1..Len(archivedProjects) :
           archivedProjects[j].status = Str(<<"A">> \o Tail(Abgeschlossen))
    /\ \E j \in 1..Len(activeProjects) : activeProjects[j].status = Null

\* the number of rows of a list with this id
RECURSIVE CountId(_, _)
CountId(rows, id) ==
    IF rows = <<>> THEN 0
    ELSE (IF rows[1].id = id THEN 1 ELSE 0) + CountId(Tail(rows), id)

\* every row of all is in exactly one of the lists a and b, and they hold
\* nothing else
TwoListsPartition(all, a, b) ==
    /\ \A i \in 1..Len(all) : CountId(a, all[i].id) + CountId(b, all[i].id) = 1
    /\ \A j \in 1..Len(a) : \E i \in 1..Len(all) : all[i] = a[j]
    /\ \A j \in 1..Len(b) : \E i \in 1..Len(all) : all[i] = b[j]
    /\ Len(a) + Len(b) = Len(all)

\* C29: every loaded project is in exactly one of the active and the archive
\* list, the two lists hold no other rows, and the two counts on the tabs add
\* up to the number of loaded projects, for every status value, null included;
\* the same for the two tabs of ProjectList
C29_ListsPartitionProjects ==
    /\ TwoListsPartition(appProjects, activeProjects, archivedProjects)
    /\ TwoListsPartition(appProjects, Filtered(appProjects, "laufend", 1),
                         Filtered(appProjects, "abgeschlossen", 1))

\* the archive tab of a dashboard with one project without status and one
\* archived project: the tabs show the counts 1 and 1
C29_Witness ==
    /\ Len(appProjects) = 2 /\ projTab = "archive" /\ TableProjects = archivedProjects
    /\ Len(activeProjects) = 1 /\ activeProjects[1].status = Null
    /\ Len(archivedProjects) = 1 /\ archivedProjects[1].status = Str(Abgeschlossen)

(***************************************************************************)
(* The row panels: BomPanel, TimePanel, TasksPanel and QuotePanel.  A row  *)
(* is its id, val for the columns a patch edits, and pos (QuotePanel).     *)
(***************************************************************************)
\* bounds of the model
MaxStored == 1
MaxOps == 2

PanelKinds == {"bom", "time", "tasks", "quote"}
Vals == {"a", "b"}

\* the columns of a row an insert fills with defaults
DefaultVal == "a"

Row(id, val, pos) == [id |-> id, val |-> val, pos |-> pos]

\* the first n rows a project of the panel has
StoredRows(k, n) ==
    [i \in 1..n |-> Row(i, DefaultVal, IF k = "quote" THEN FromNat(i) ELSE Undefined)]

Call(no, op, id, val, pos, closure, cause) ==
    [no |-> no, op |-> op, id |-> id, val |-> val, pos |-> pos, items |-> closure,
     cause |-> cause, st |-> "sent", data |-> <<>>]

\* reload / reloadBom: the fetch of the rows
ReloadCall(no, cause) == Call(no, "reload", 0, DefaultVal, Undefined, <<>>, cause)

\* the panel is mounted: its effect has called reload
InitPanel ==
    /\ panel \in PanelKinds
    /\ stored \in {StoredRows(panel, n) : n \in 0..MaxStored}
    /\ nextId = Len(stored) + 1
    /\ items = <<>>
    /\ quote = FALSE
    /\ calls = {ReloadCall(1, "mount")}
    /\ nCalls = 1
    /\ ops = 0

HasRow(rows, id) == \E i \in 1..Len(rows) : rows[i].id = id

\* the row with the id
RowOf(rows, id) == rows[CHOOSE i \in 1..Len(rows) : rows[i].id = id]

\* rows.map((x) => (x.id === id ? row(x) : x)) with row(x) = { ...x, val }
PatchRows(rows, id, val) ==
    [i \in 1..Len(rows) |-> IF rows[i].id = id THEN [rows[i] EXCEPT !.val = val] ELSE rows[i]]

\* rows.map((x) => (x.id === id ? updated : x))
ReplaceRow(rows, id, updated) ==
    [i \in 1..Len(rows) |-> IF rows[i].id = id THEN updated ELSE rows[i]]

\* rows.filter((x) => x.id !== id)
RECURSIVE RemoveRow(_, _)
RemoveRow(rows, id) ==
    IF rows = <<>> THEN <<>>
    ELSE (IF Head(rows).id = id THEN <<>> ELSE <<Head(rows)>>) \o RemoveRow(Tail(rows), id)

\* (items[items.length - 1]?.pos ?? 0) + 1
NextPos(rows) ==
    FAdd(Coalesce(IF rows = <<>> THEN Undefined ELSE rows[Len(rows)].pos, Zero), One)

\* create / add / createItem: the insert call; QuotePanel returns without a quote
Create ==
    /\ ops < MaxOps
    /\ panel = "quote" => quote
    /\ calls' = calls \cup
           {Call(nCalls + 1, "create", 0, DefaultVal,
                 IF panel = "quote" THEN NextPos(items) ELSE Undefined, items, "user")}
    /\ nCalls' = nCalls + 1
    /\ ops' = ops + 1
    /\ UNCHANGED <<panel, stored, nextId, items, quote>>

\* patch / patchItem: the optimistic list is set, then the update call is made
Patch(id, val) ==
    /\ ops < MaxOps
    /\ HasRow(items, id)
    /\ items' = PatchRows(items, id, val)
    /\ calls' = calls \cup {Call(nCalls + 1, "patch", id, val, Undefined, items, "user")}
    /\ nCalls' = nCalls + 1
    /\ ops' = ops + 1
    /\ UNCHANGED <<panel, stored, nextId, quote>>

\* remove / removeItem: the optimistic list is set, then the delete call is made
Remove(id) ==
    /\ ops < MaxOps
    /\ HasRow(items, id)
    /\ items' = RemoveRow(items, id)
    /\ calls' = calls \cup {Call(nCalls + 1, "remove", id, DefaultVal, Undefined, items, "user")}
    /\ nCalls' = nCalls + 1
    /\ ops' = ops + 1
    /\ UNCHANGED <<panel, stored, nextId, quote>>

\* the rows after an insert, in the order of the panel's fetch: created_at
\* ascending (bom), pos ascending (quote), newest first among rows of one
\* work_date (time) or without due_at (tasks)
Inserted(k, rows, row) ==
    IF k \in {"bom", "quote"} THEN rows \o <<row>> ELSE <<row>> \o rows

\* the store fails a call: nothing is written
ServeError(c) ==
    /\ c \in calls /\ c.st = "sent"
    /\ calls' = (calls \ {c}) \cup {[c EXCEPT !.st = "err"]}
    /\ UNCHANGED <<panel, stored, nextId, items, quote, nCalls, ops>>

\* the store carries out a call; an update of a row that is gone finds no
\* row for .single() and is an error
ServeOk(c) ==
    /\ c \in calls /\ c.st = "sent"
    /\ c.op = "patch" => HasRow(stored, c.id)
    /\ stored' =
           IF c.op = "create" THEN Inserted(panel, stored, Row(nextId, c.val, c.pos))
           ELSE IF c.op = "patch" THEN PatchRows(stored, c.id, c.val)
           ELSE IF c.op = "remove" THEN RemoveRow(stored, c.id)
           ELSE stored
    /\ nextId' = IF c.op = "create" THEN nextId + 1 ELSE nextId
    /\ calls' = (calls \ {c}) \cup
           {[c EXCEPT !.st = "ok",
                      !.data = IF c.op = "create" THEN <<Row(nextId, c.val, c.pos)>>
                               ELSE IF c.op = "patch"
                                    THEN <<[RowOf(stored, c.id) EXCEPT !.val = c.val]>>
                               ELSE IF c.op = "reload" THEN stored
                               ELSE <<>>]}
    /\ UNCHANGED <<panel, items, quote, nCalls, ops>>

\* QuotePanel.reload: it.map((x, i) => ({ ...x, pos: x.pos ?? i + 1 }))
Loaded(k, data) ==
    IF k = "quote"
    THEN [i \in 1..Len(data) |-> [data[i] EXCEPT !.pos = Coalesce(@, FromNat(i))]]
    ELSE data

\* the list after the response of a create
Created(k, c, prev) ==
    IF k = "bom" THEN c.items \o c.data
    ELSE IF k = "time" THEN c.data \o prev
    ELSE prev \o c.data

\* the list after the response of a patch
Patched(k, c, prev) ==
    ReplaceRow(IF k = "bom" THEN c.items ELSE prev, c.id, c.data[1])

\* the handler continues after a call that succeeded
DeliverOk(c) ==
    /\ c \in calls /\ c.st = "ok"
    /\ items' =
           IF c.op = "create" THEN Created(panel, c, items)
           ELSE IF c.op = "patch" THEN Patched(panel, c, items)
           ELSE IF c.op = "reload" THEN Loaded(panel, c.data)
           ELSE items
    /\ quote' = (quote \/ (panel = "quote" /\ c.op = "reload"))
    /\ calls' = calls \ {c}
    /\ UNCHANGED <<panel, stored, nextId, nCalls, ops>>

\* the handler continues after a call that threw: patch and remove call
\* reload; create and reload leave the list as it is.  QuotePanel.reload may
\* have set the quote before its fetch of the items threw
DeliverError(c) ==
    /\ c \in calls /\ c.st = "err"
    /\ IF c.op \in {"patch", "remove"}
       THEN /\ calls' = (calls \ {c}) \cup {ReloadCall(nCalls + 1, "failure")}
            /\ nCalls' = nCalls + 1
            /\ UNCHANGED quote
       ELSE /\ calls' = calls \ {c}
            /\ UNCHANGED nCalls
            /\ IF panel = "quote" /\ c.op = "reload"
               THEN quote' \in {quote, TRUE}
               ELSE UNCHANGED quote
    /\ UNCHANGED <<panel, stored, nextId, items, ops>>

(***************************************************************************)
(* Claims about the row panels.                                            *)
(***************************************************************************)
\* C8: when the reload made after a failed update or delete delivers the
\* fetched rows and no other call is in flight, the local list is the rows
\* stored for the project
C8_ReloadAfterFailureShowsStored ==
    [][\A c \in calls :
          (c.op = "reload" /\ c.cause = "failure" /\ c.st = "ok" /\ calls' = {})
              => items' = stored']_vars

\* C22: in BomPanel, when every request succeeds, once no request is in
\* flight the local item list is the rows stored for the project: a deleted
\* row does not reappear with the response of an earlier patch or create, and
\* an edit made while another patch was in flight is not lost
C22_BomListEqualsStoredRows ==
    (panel = "bom" /\ calls = {}) => items = stored

\* C23: in TimePanel, TasksPanel and the item list of QuotePanel, whatever the
\* order of the requests and of their responses, once no request is in flight
\* the local list is the rows stored for the project: a late response of an
\* older patch or reload does not overwrite a newer successful write
C23_ListEqualsStoredRows ==
    (panel \in {"time", "tasks", "quote"} /\ calls = {}) => items = stored

(***************************************************************************)
(* The coercion num, applied to one value.                                 *)
(***************************************************************************)
\* bound of the model
MaxText == 3

TextChars == {"1", ",", ".", "a", "-"}

\* the strings of at most n characters
Texts(n) == UNION {[1..k -> TextChars] : k \in 0..n}

\* what num is given: a missing value, a number, or the text of an input
NumArgs ==
    {Null, Undefined, NaN, Inf(0), Inf(1), Zero, FromNat(65), Dec(15, -1), FNeg(One)}
        \cup {Str(t) : t \in Texts(MaxText)}

InitNum == numArg \in NumArgs /\ numRet = <<>>

\* num(v) returns
NumReturn ==
    /\ numRet = <<>>
    /\ numRet' = Num(numArg)
    /\ UNCHANGED numArg

(***************************************************************************)
(* Claims about num.                                                       *)
(***************************************************************************)
\* digits, optionally followed by a point and digits, or a point and digits
IsDecimalText(t) ==
    LET int  == DigitPrefix(t)
        rest == Slice(t, Len(int))
    IN  \/ int # <<>> /\ rest = <<>>
        \/ /\ rest # <<>> /\ rest[1] = "."
           /\ Len(int) + Len(rest) > 1
           /\ \A i \in 2..Len(rest) : IsDigit(rest[i])

\* a string that is a number written out: an optional sign and a decimal
IsNumericText(t) ==
    IF t # <<>> /\ t[1] \in {"-", "+"} THEN IsDecimalText(Tail(t)) ELSE IsDecimalText(t)

\* C12: num returns a finite number for every value: 0 for null, undefined,
\* NaN, an infinite value and a string that is not numeric, and the number
\* itself for a finite number
C12_NumCoercesToZero ==
    numRet # <<>> =>
        /\ IsNumber(numRet) /\ IsFinite(numRet)
        /\ (IsNumber(numArg) /\ IsFinite(numArg)) => numRet = numArg
        /\ (IsNullish(numArg) \/ (IsNumber(numArg) /\ ~IsFinite(numArg))) => numRet = Zero
        /\ (numArg.k = "str" /\ ~IsNumericText(numArg.v)) => numRet = Zero

(***************************************************************************)
(* Quote totals: QuotePanel.totals.                                        *)
(***************************************************************************)
\* a line net that adds the discount instead of taking it off
LineNetDiscountAdded(it) ==
    FMul(Num(it.qty),
         FMul(Num(it.unit_price_net), FAdd(One, FDiv(Num(it.discount_pct), Hundred))))

\* num(it.qty) * (num(it.unit_price_net) * (1 - num(it.discount_pct) / 100))
LineNet(it) ==
    FMul(Num(it.qty),
         FMul(Num(it.unit_price_net), FSub(One, FDiv(Num(it.discount_pct), Hundred))))

\* items.reduce((s, it) => s + line, 0)
RECURSIVE SumNetReduce(_, _, _)
SumNetReduce(its, i, s) ==
    IF i > Len(its) THEN s
    ELSE SumNetReduce(its, i + 1, FAdd(s, LineNet(its[i])))

\* quote?.tax_rate
HeaderTaxRate(q) == IF q = Null THEN Undefined ELSE q.tax_rate

\* a default that also replaces a tax rate of 0: num(quote?.tax_rate || 19)
TaxRateFalsyDefault(q) ==
    Num(IF HeaderTaxRate(q) \in {Null, Undefined, Zero, NaN} THEN FromNat(19) ELSE HeaderTaxRate(q))

\* num(quote?.tax_rate ?? 19)
TaxRateOf(q) == Num(Coalesce(HeaderTaxRate(q), FromNat(19)))

\* a percentage held to the range from 0 to 100
ClampPct(x) == IF FLt(x, Zero) THEN Zero ELSE IF FLt(Hundred, x) THEN Hundred ELSE x

\* totals whose VAT is taken at the clamped tax rate
TotalsFromClampedTax(sumNet, taxRate) ==
    [sumNet |-> sumNet, vat |-> FDiv(FMul(sumNet, ClampPct(taxRate)), Hundred),
     gross |-> FAdd(sumNet, FDiv(FMul(sumNet, ClampPct(taxRate)), Hundred)),
     taxRate |-> taxRate]

\* { sumNet, vat, gross, taxRate } from sumNet and taxRate
TotalsFrom(sumNet, taxRate) ==
    [sumNet |-> sumNet, vat |-> FDiv(FMul(sumNet, taxRate), Hundred),
     gross |-> FAdd(sumNet, FDiv(FMul(sumNet, taxRate), Hundred)), taxRate |-> taxRate]

Totals(its, q) == TotalsFrom(SumNetReduce(its, 1, Zero), TaxRateOf(q))

(***************************************************************************)
(* QuotePanel: the header and the items it shows, loaded from the store    *)
(* and edited through the number inputs.                                   *)
(***************************************************************************)
MaxQuoteEdits == 2

QuoteItem(id, pos, qty, price, discount) ==
    [id |-> id, pos |-> pos, qty |-> qty, unit_price_net |-> price, discount_pct |-> discount]

\* quote_items rows a store can hold, in the order of their creation
StoredItemLists ==
    { <<>>,
      <<QuoteItem(1, One, FromNat(2), Hundred, FromNat(10))>>,
      <<QuoteItem(1, One, FromNat(2), Hundred, FromNat(10)),
        QuoteItem(2, Null, One, FromNat(50), Null)>>,
      <<QuoteItem(1, One, One, Dec(1, -1), Zero),
        QuoteItem(2, FromNat(2), One, Dec(2, -1), Zero),
        QuoteItem(3, FromNat(3), One, Dec(3, -1), Zero)>> }

\* the quotes row of the project: none yet, or one with its tax_rate column
StoredHeaders == {Null, [tax_rate |-> Null], [tax_rate |-> FromNat(19)], [tax_rate |-> Zero]}

InitQuote ==
    /\ quoteStore \in {[quote |-> h, rows |-> r] : h \in StoredHeaders, r \in StoredItemLists}
    /\ quoteStore.quote = Null => quoteStore.rows = <<>>
    /\ quoteRow = Null
    /\ quoteItems = <<>>
    /\ totals = Totals(<<>>, Null)
    /\ quoteEdits = 0

\* getOrCreateQuote: the row found, or a new one inserted with tax_rate 19
GetOrCreateQuote(found) == IF found = Null THEN [tax_rate |-> FromNat(19)] ELSE found

\* order("pos", ascending) then order("created_at", ascending); null pos last
PosBefore(a, b) ==
    IF a.pos = Null THEN b.pos = Null /\ a.id < b.id
    ELSE IF b.pos = Null THEN TRUE
    ELSE FLt(a.pos, b.pos) \/ (a.pos = b.pos /\ a.id < b.id)

FetchQuoteItems(rows) ==
    LET n == Len(rows)
        order == CHOOSE f \in [1..n -> 1..n] :
                    /\ \A i, j \in 1..n : i # j => f[i] # f[j]
                    /\ \A i, j \in 1..n : i < j => PosBefore(rows[f[i]], rows[f[j]])
    IN [i \in 1..n |-> rows[order[i]]]

\* it.map((x, i) => ({ ...x, pos: x.pos ?? i + 1 }))
DefaultPos(its) == [i \in 1..Len(its) |-> [its[i] EXCEPT !.pos = Coalesce(its[i].pos, FromNat(i))]]

\* the render after setQuote(q) and setItems(its): totals = useMemo(...)
Render(q, its) ==
    /\ quoteRow' = q
    /\ quoteItems' = its
    /\ totals' = Totals(its, q)

\* reload: setQuote(getOrCreateQuote), setItems(fetchQuoteItems with default pos)
Reload ==
    /\ quoteStore' = [quoteStore EXCEPT !.quote = GetOrCreateQuote(quoteStore.quote)]
    /\ Render(GetOrCreateQuote(quoteStore.quote), DefaultPos(FetchQuoteItems(quoteStore.rows)))
    /\ UNCHANGED quoteEdits

\* the texts typed into the number inputs of the panel, by column
QuoteInputTexts(field) ==
    CASE field = "tax_rate" -> {<<"0">>, <<"1", "5", "0">>, <<"-", "5">>}
      [] field = "pos" -> {<<"4">>}
      [] field = "qty" -> {<<"3">>}
      [] field = "unit_price_net" -> {<<"-", "5">>}
      [] field = "discount_pct" -> {<<"1", "5", "0">>}

ItemFields == {"pos", "qty", "unit_price_net", "discount_pct"}

\* items.map((x) => (x.id === id ? { ...x, ...p } : x)), in the panel and in the store
PatchItemRows(its, id, field, v) ==
    [i \in 1..Len(its) |-> IF its[i].id = id THEN [its[i] EXCEPT ![field] = v] ELSE its[i]]

\* NumberInput onChange -> patchItem(it.id, { [field]: num(text) })
PatchItem ==
    \E i \in 1..Len(quoteItems), field \in ItemFields :
        \E text \in QuoteInputTexts(field) :
            /\ quoteEdits < MaxQuoteEdits
            /\ quoteEdits' = quoteEdits + 1
            /\ Render(quoteRow, PatchItemRows(quoteItems, quoteItems[i].id, field, Num(Str(text))))
            /\ quoteStore' = [quoteStore EXCEPT
                   !.rows = PatchItemRows(@, quoteItems[i].id, field, Num(Str(text)))]

\* NumberInput onChange -> patchHeader({ tax_rate: num(text) })
PatchHeader ==
    \E text \in QuoteInputTexts("tax_rate") :
        /\ quoteRow # Null
        /\ quoteEdits < MaxQuoteEdits
        /\ quoteEdits' = quoteEdits + 1
        /\ quoteStore' = [quoteStore EXCEPT !.quote = [@ EXCEPT !.tax_rate = Num(Str(text))]]
        /\ Render([quoteStore.quote EXCEPT !.tax_rate = Num(Str(text))], quoteItems)

(***************************************************************************)
(* Claims about the quote totals.                                          *)
(***************************************************************************)
\* a column that is null counts as 0
ZeroIfNull(v) == IF v = Null THEN Zero ELSE v

\* qty x unit_price_net x (1 - discount_pct / 100), as stated
StatedLineNet(it) ==
    FMul(ZeroIfNull(it.qty),
         FMul(ZeroIfNull(it.unit_price_net),
              FSub(One, FDiv(ZeroIfNull(it.discount_pct), Hundred))))

\* the sum of the stated line nets of the first n items
RECURSIVE StatedSubtotal(_, _)
StatedSubtotal(its, n) ==
    IF n = 0 THEN Zero ELSE FAdd(StatedSubtotal(its, n - 1), StatedLineNet(its[n]))

StatedTotals(sub, rate, t) ==
    /\ t.sumNet = sub
    /\ t.vat = FDiv(FMul(sub, rate), Hundred)
    /\ t.gross = FAdd(sub, FDiv(FMul(sub, rate), Hundred))

\* the single item of the example: qty 2, unit price 100, discount 10
IsExampleQuote ==
    /\ Len(quoteItems) = 1
    /\ quoteItems[1].qty = FromNat(2)
    /\ quoteItems[1].unit_price_net = Hundred
    /\ quoteItems[1].discount_pct = FromNat(10)
    /\ quoteRow # Null
    /\ quoteRow.tax_rate = FromNat(19)

\* C13: for every list of quote items and tax rate the subtotal net is the sum
\* over the items of qty x unit_price_net x (1 - discount_pct/100), the VAT is
\* subtotal net x tax rate / 100 and the gross is subtotal net + VAT; the single
\* item qty 2, unit price 100, discount 10 with tax rate 19 gives 180, 34.2, 214.2.
C13_QuoteTotalsFormulas ==
    /\ StatedTotals(StatedSubtotal(quoteItems, Len(quoteItems)), totals.taxRate, totals)
    /\ IsExampleQuote =>
           /\ totals.sumNet = FromNat(180)
           /\ totals.vat = Dec(342, -1)
           /\ totals.gross = Dec(2142, -1)

\* the example quote is loaded and its gross total reads 214.2
C13_Witness ==
    /\ IsExampleQuote
    /\ NumberToString(totals.gross) = <<"2", "1", "4", ".", "2">>

\* the header has a tax rate of its own
HasTaxRate == quoteRow # Null /\ quoteRow.tax_rate # Null

\* C14: the tax rate used for the quote totals is 19 exactly when the header
\* has no tax rate (null, or no quote loaded); every explicit tax rate of the
\* header, 0 included, is used as given and is not replaced by the default.
C14_DefaultTaxRateOnlyWhenAbsent ==
    /\ ~HasTaxRate => totals.taxRate = FromNat(19)
    /\ HasTaxRate => totals.taxRate = quoteRow.tax_rate
    /\ totals.vat = FDiv(FMul(totals.sumNet, IF HasTaxRate THEN quoteRow.tax_rate ELSE FromNat(19)), Hundred)

\* a quote with items whose header has the explicit tax rate 0: no VAT
C14_Witness ==
    /\ HasTaxRate
    /\ quoteRow.tax_rate = Zero
    /\ ~IsZero(totals.sumNet)
    /\ totals.taxRate = Zero
    /\ totals.gross = totals.sumNet

\* the columns of a row that the totals read, and the row they belong to
WithoutPos(it) ==
    [id |-> it.id, qty |-> it.qty, unit_price_net |-> it.unit_price_net,
     discount_pct |-> it.discount_pct]

\* the same rows with the same columns, whatever their pos values
SameUpToPos(a, b) ==
    /\ Len(a) = Len(b)
    /\ {WithoutPos(a[i]) : i \in 1..Len(a)} = {WithoutPos(b[i]) : i \in 1..Len(b)}

\* C15: the quote totals (subtotal net, VAT, gross) do not depend on the pos
\* values of the items: while the panel shows the same rows under the same tax
\* rate, whatever happens to their pos values, the three totals stay the same.
C15_TotalsIndependentOfPos ==
    [][(SameUpToPos(quoteItems, quoteItems') /\ quoteRow' = quoteRow)
          => totals' = totals]_vars

\* a percentage outside the range from 0 to 100
OutOfRange(x) == FLt(x, Zero) \/ FLt(Hundred, x)

\* C16: discount_pct and tax_rate values outside [0, 100] are accepted without
\* validation or clamping: a discount above 100 on a line with positive qty
\* and price gives a negative line net that is added to the subtotal as is,
\* and a negative or above-100 tax rate is applied as given in the VAT formula.
C16_OutOfRangePercentagesUnclamped ==
    /\ \A i \in 1..Len(quoteItems) :
           (/\ FLt(Hundred, ZeroIfNull(quoteItems[i].discount_pct))
            /\ FLt(Zero, ZeroIfNull(quoteItems[i].qty))
            /\ FLt(Zero, ZeroIfNull(quoteItems[i].unit_price_net)))
           => /\ FLt(StatedLineNet(quoteItems[i]), Zero)
              /\ totals.sumNet = StatedSubtotal(quoteItems, Len(quoteItems))
    /\ (HasTaxRate /\ OutOfRange(quoteRow.tax_rate))
           => /\ totals.taxRate = quoteRow.tax_rate
              /\ totals.vat = FDiv(FMul(totals.sumNet, quoteRow.tax_rate), Hundred)
              /\ totals.gross = FAdd(totals.sumNet, totals.vat)

\* the example item with the discount 150 typed in and the tax rate -5:
\* subtotal -100, VAT 5, gross -95
C16_Witness ==
    /\ Len(quoteItems) = 1
    /\ quoteItems[1].discount_pct = FromNat(150)
    /\ HasTaxRate
    /\ quoteRow.tax_rate = FNeg(FromNat(5))
    /\ totals.sumNet = FNeg(Hundred)
    /\ totals.vat = FromNat(5)
    /\ totals.gross = FNeg(FromNat(95))

(***************************************************************************)
(* Claims about costs, profits and the outstanding balance.                *)
(***************************************************************************)
\* the sum of qty x unit_price_net over the first n lines, null counted as 0
RECURSIVE StatedMaterial(_, _)
StatedMaterial(rows, n) ==
    IF n = 0 THEN Zero
    ELSE FAdd(StatedMaterial(rows, n - 1),
              FMul(ZeroIfNull(rows[n].qty), ZeroIfNull(rows[n].unit_price_net)))

\* hours_planned x hourly_rate + material total + other_costs, as stated
StatedPlannedCost(f, material) ==
    FAdd(FAdd(FMul(ZeroIfNull(f.hours_planned), ZeroIfNull(f.hourly_rate)), material),
         ZeroIfNull(f.other_costs))

\* C17: the planned cost is hours_planned x hourly_rate + material total +
\* other_costs, every null or missing operand counted as 0: of the values in
\* the form, and of the project's own values while the form is unedited.
C17_PlannedCost ==
    /\ plannedCost = StatedPlannedCost(fin, StatedMaterial(bom, Len(bom)))
    /\ Edited(fin) = {}
           => plannedCost = StatedPlannedCost(project, StatedMaterial(bom, Len(bom)))

\* a project without finance data and its whole bom, 250.5 typed into the
\* other costs: 0 x 0 + 0.6 + 250.5
C17_Witness ==
    /\ project = ProjectNew
    /\ fin.other_costs = Dec(2505, -1)
    /\ fin.hours_planned = Zero
    /\ Len(bom) = 3
    /\ FLt(FromNat(251), plannedCost)
    /\ FLt(plannedCost, FromNat(252))

\* time cost + material total + other_costs, as stated
StatedActualCost(timeCost, material, other) == FAdd(FAdd(timeCost, material), other)

\* C18: the actual cost is the time cost of the recorded time entries +
\* material total + other_costs; the manually entered hours_actual does not
\* enter it: with no time cost it is material total + other_costs whatever
\* hours_actual and hourly_rate are.
C18_ActualCost ==
    /\ actualCost =
           StatedActualCost(timeSum.cost, StatedMaterial(bom, Len(bom)), fin.other_costs)
    /\ IsZero(timeSum.cost)
           => actualCost = FAdd(StatedMaterial(bom, Len(bom)), fin.other_costs)

\* the project with hours_actual 5 at the rate 65 whose time entries cost
\* 257.5: the actual cost is 257.5 + 0 + 10, not 5 x 65 + 10
C18_Witness ==
    /\ project = ProjectFin
    /\ fin.hours_actual = FromNat(5)
    /\ fin.hourly_rate = FromNat(65)
    /\ timeReq.st = "idle"
    /\ timeSum.cost = Dec(2575, -1)
    /\ actualCost = Dec(2675, -1)

\* revenue - cost, negative when the cost exceeds the revenue
StatedProfit(profit, revenue, cost) ==
    /\ profit = FSub(revenue, cost)
    /\ FLt(revenue, cost) => FLt(profit, Zero)

\* C19: the planned profit is quote_total_net - planned cost and the actual
\* profit is invoiced_net - actual cost; when the cost exceeds the revenue the
\* profit is the negative difference, never clamped to zero.
C19_ProfitsNotClamped ==
    /\ StatedProfit(plannedProfit, fin.quote_total_net, plannedCost)
    /\ StatedProfit(actualProfit, fin.invoiced_net, actualCost)

\* the quote total 200 against the planned cost 2 x 65 + 250.5 typed into the
\* other costs: the planned profit is -180.5
C19_Witness ==
    /\ fin.quote_total_net = FromNat(200)
    /\ fin.other_costs = Dec(2505, -1)
    /\ bom = <<>>
    /\ plannedProfit = FNeg(Dec(1805, -1))

\* C20: the outstanding balance is invoiced_net - payments_received for all
\* values; when the payments exceed the invoiced amount it is negative, not
\* clamped to zero: 1000 invoiced and 1200 paid give -200.
C20_OutstandingNotClamped ==
    /\ outstanding = FSub(fin.invoiced_net, fin.payments_received)
    /\ FLt(fin.invoiced_net, fin.payments_received) => FLt(outstanding, Zero)
    /\ (fin.invoiced_net = FromNat(1000) /\ fin.payments_received = FromNat(1200))
           => outstanding = FNeg(FromNat(200))

\* 1000 invoiced and 1200 paid, after the time entries have been fetched
C20_Witness ==
    /\ fin.invoiced_net = FromNat(1000)
    /\ fin.payments_received = FromNat(1200)
    /\ timeReq.st = "idle"
    /\ outstanding = FNeg(FromNat(200))

(***************************************************************************)
(* TimePanel: the entries of a project, added and edited in the panel.     *)
(***************************************************************************)
MaxTimeOps == 2

TimeEntry(id, hours, rate) == [id |-> id, hours |-> hours, hourly_rate |-> rate]

\* time_entries rows a store can hold, in the order of their creation
StoredEntryLists ==
    { <<>>,
      <<TimeEntry(1, FromNat(2), FromNat(80)), TimeEntry(2, Dec(15, -1), Null)>>,
      <<TimeEntry(1, Null, FromNat(80)), TimeEntry(2, Dec(15, -1), Null)>>,
      <<TimeEntry(1, One, Zero)>>,
      <<TimeEntry(1, Dec(1, -1), Null), TimeEntry(2, Dec(2, -1), Null),
        TimeEntry(3, Dec(3, -1), Null)>> }

\* the hourly_rate of the project row
ProjectRates == {Null, FromNat(65)}

\* order("work_date", descending) then order("created_at", descending), for
\* entries of one work_date: the newest first
FetchTimeEntries(rows) == [i \in 1..Len(rows) |-> rows[Len(rows) + 1 - i]]

\* a sum of hours that counts an entry without hours as one hour
RECURSIVE TotalHoursNullAsOne(_, _, _)
TotalHoursNullAsOne(es, i, s) ==
    IF i > Len(es) THEN s
    ELSE TotalHoursNullAsOne(es, i + 1,
             FAdd(s, IF es[i].hours = Null THEN One ELSE Num(es[i].hours)))

\* Number(e.hours) || 0
NumberOrZero(v) ==
    IF v \in {Null, Undefined} THEN Zero
    ELSE IF v = NaN \/ IsZero(v) THEN Zero ELSE v

\* the other TimePanel: entries.reduce((sum, e) => sum + (Number(e.hours) || 0), 0)
RECURSIVE Total(_, _, _)
Total(es, i, sum) ==
    IF i > Len(es) THEN sum ELSE Total(es, i + 1, FAdd(sum, NumberOrZero(es[i].hours)))

\* const totalHours = entries.reduce((s, e) => s + num(e.hours), 0)
RECURSIVE TotalHours(_, _, _)
TotalHours(es, i, s) ==
    IF i > Len(es) THEN s ELSE TotalHours(es, i + 1, FAdd(s, Num(es[i].hours)))

\* const cost = num(e.hours) * num(e.hourly_rate ?? project.hourly_rate)
RowCost(e, p) == FMul(Num(e.hours), Num(Coalesce(e.hourly_rate, p.hourly_rate)))

\* const totalCost = entries.reduce((s, e) => s + num(e.hours) * num(...), 0)
RECURSIVE TotalCost(_, _, _, _)
TotalCost(es, p, i, s) ==
    IF i > Len(es) THEN s
    ELSE TotalCost(es, p, i + 1,
                   FAdd(s, FMul(Num(es[i].hours),
                                Num(Coalesce(es[i].hourly_rate, p.hourly_rate)))))

\* the render of the panel with the project p and the entries es
TimeRender(p, es) ==
    /\ timeProject' = p
    /\ panelEntries' = es
    /\ timeView' = [totalHours |-> TotalHours(es, 1, Zero),
                    totalCost |-> TotalCost(es, p, 1, Zero),
                    cost |-> [i \in 1..Len(es) |-> RowCost(es[i], p)]]

\* the panel is mounted; its effect has called reload
InitTime ==
    /\ timeRows \in StoredEntryLists
    /\ timeProject \in {[hourly_rate |-> r] : r \in ProjectRates}
    /\ panelEntries = <<>>
    /\ timeView = [totalHours |-> Zero, totalCost |-> Zero, cost |-> <<>>]
    /\ timeOps = 0

\* reload: setEntries(await fetchTimeEntries(project.id))
TimeReload ==
    /\ TimeRender(timeProject, FetchTimeEntries(timeRows))
    /\ UNCHANGED <<timeRows, timeOps>>

\* the hourly_rate that addTimeEntry inserts whatever the preset holds:
\* an insert that ignores the project
AddedRateNull(preset, p) == Null

\* addTimeEntry: hourly_rate: preset?.hourly_rate ?? project.hourly_rate ?? null
AddedRate(preset, p) == Coalesce(Coalesce(preset.hourly_rate, p.hourly_rate), Null)

\* add: addTimeEntry(project, { hourly_rate: project.hourly_rate ?? undefined }),
\* hours: preset?.hours ?? 1; setEntries((prev) => [created, ...prev])
TimeAdd ==
    /\ timeOps < MaxTimeOps
    /\ timeOps' = timeOps + 1
    /\ timeRows' = Append(timeRows,
           TimeEntry(Len(timeRows) + 1, One,
                     AddedRate([hourly_rate |-> Coalesce(timeProject.hourly_rate, Undefined)],
                               timeProject)))
    /\ TimeRender(timeProject,
           <<TimeEntry(Len(timeRows) + 1, One,
                       AddedRate([hourly_rate |-> Coalesce(timeProject.hourly_rate, Undefined)],
                                 timeProject))>> \o panelEntries)

\* the texts typed into the number inputs of a row
TimeInputTexts(field) ==
    CASE field = "hours" -> {<<"3">>, <<>>}
      [] field = "hourly_rate" -> {<<"9", "0">>, <<"a">>}

\* entries.map((x) => (x.id === id ? { ...x, ...p } : x)), in the panel and in the store
PatchEntryRows(es, id, field, v) ==
    [i \in 1..Len(es) |-> IF es[i].id = id THEN [es[i] EXCEPT ![field] = v] ELSE es[i]]

\* NumberInput onChange -> patch(e.id, { hours: v }) / patch(e.id, { hourly_rate: v })
TimePatch ==
    \E i \in 1..Len(panelEntries), field \in {"hours", "hourly_rate"} :
        \E text \in TimeInputTexts(field) :
            /\ timeOps < MaxTimeOps
            /\ timeOps' = timeOps + 1
            /\ timeRows' = PatchEntryRows(timeRows, panelEntries[i].id, field, Num(Str(text)))
            /\ TimeRender(timeProject,
                   PatchEntryRows(panelEntries, panelEntries[i].id, field, Num(Str(text))))

\* the project is saved with another hourly rate (save: hourly_rate:
\* num(fin.hourly_rate)) and the panel gets the updated project
ProjectRateSaved ==
    \E text \in {<<"7", "0">>, <<>>} :
        /\ timeOps < MaxTimeOps
        /\ timeOps' = timeOps + 1
        /\ TimeRender([hourly_rate |-> Num(Str(text))], panelEntries)
        /\ UNCHANGED timeRows

(***************************************************************************)
(* Claims about the time entries.                                          *)
(***************************************************************************)
\* the sum of the hours of the first n entries, null counted as 0
RECURSIVE StatedHours(_, _)
StatedHours(es, n) ==
    IF n = 0 THEN Zero ELSE FAdd(StatedHours(es, n - 1), ZeroIfNull(es[n].hours))

HasOwnRate(e) == e.hourly_rate \notin {Null, Undefined} /\ e.hourly_rate.k = "num"

MaxQuoteCalls == 3

\* a quotes row: its id and the tax_rate it was inserted with
QuoteRowOf(id) == [id |-> id, tax_rate |-> FromNat(19)]

NotCalled == [st |-> "none"]
AtSelect == [st |-> "select"]
AtInsert == [st |-> "insert"]
Returned(q) == [st |-> "returned", data |-> q]
Thrown == [st |-> "thrown"]

\* the project has no quote yet, or one
InitGetQuote ==
    /\ quotesTable \in {{}, {QuoteRowOf(1)}}
    /\ quoteCalls = [c \in 1..MaxQuoteCalls |-> NotCalled]

\* QuotePanel.reload calls getOrCreateQuote(project.id): the select is sent
CallGetOrCreateQuote(c) ==
    /\ quoteCalls[c].st = "none"
    /\ quoteCalls' = [quoteCalls EXCEPT ![c] = AtSelect]
    /\ UNCHANGED quotesTable

\* .maybeSingle(): no row gives data null, one row gives the row, several
\* rows give an error
MaybeSingle(rows) ==
    IF Cardinality(rows) > 1 THEN [error |-> TRUE, data |-> Null]
    ELSE IF rows = {} THEN [error |-> FALSE, data |-> Null]
    ELSE [error |-> FALSE, data |-> CHOOSE q \in rows : TRUE]

\* after the select: if (found.error) throw; if (found.data) return found.data;
\* otherwise the insert is sent
AfterSelect(found) ==
    IF found.error THEN Thrown
    ELSE IF found.data # Null THEN Returned(found.data)
    ELSE AtInsert

\* the store answers the select of call c and the call continues
SelectServed(c) ==
    /\ quoteCalls[c].st = "select"
    /\ quoteCalls' = [quoteCalls EXCEPT ![c] = AfterSelect(MaybeSingle(quotesTable))]
    /\ UNCHANGED quotesTable

\* the store carries out the insert of call c: .insert({ ..., tax_rate: 19 })
\* .select("*").single(), and the call returns the new row
InsertServed(c) ==
    /\ quoteCalls[c].st = "insert"
    /\ quotesTable' = quotesTable \cup {QuoteRowOf(Cardinality(quotesTable) + 1)}
    /\ quoteCalls' = [quoteCalls EXCEPT ![c] = Returned(QuoteRowOf(Cardinality(quotesTable) + 1))]

\* the store fails the insert of call c: if (error) throw error
InsertFailed(c) ==
    /\ quoteCalls[c].st = "insert"
    /\ quoteCalls' = [quoteCalls EXCEPT ![c] = Thrown]
    /\ UNCHANGED quotesTable

\* C24: getOrCreateQuote keeps at most one quote row per project under any
\* interleaving of calls: all calls that return give the same quote, and no
\* call finds several quotes
C24_AtMostOneQuotePerProject ==
    /\ Cardinality(quotesTable) <= 1
    /\ \A c, d \in 1..MaxQuoteCalls :
           (quoteCalls[c].st = "returned" /\ quoteCalls[d].st = "returned")
               => quoteCalls[c].data = quoteCalls[d].data

(***************************************************************************)
(* exportPdfWithAgb: the canvas is cut into slices of one A4 page each.    *)
(***************************************************************************)
MaxCanvasW == 3
MaxCanvasH == 9

\* const pageWpt = 595.28; const pageHpt = 841.89
pageWpt == Dec(59528, -2)
pageHpt == Dec(84189, -2)

\* Math.floor of a finite number that is not negative, as a natural number
MathFloorNat(x) == BToNat(BDivMod(NumerOf(x), DenomOf(x))[1])

\* const pageHpx = Math.floor((pageHpt / pageWpt) * fullW)
PageHpx(fullW) == MathFloorNat(FMul(FDiv(pageHpt, pageWpt), FromNat(fullW)))

\* a slice that is a whole page whatever is left of the canvas
SliceHWholePage(pHpx, fullH, yy) == pHpx

\* const sliceH = Math.min(pageHpx, fullH - y)
SliceH(pHpx, fullH, yy) == Min(pHpx, fullH - yy)

\* html2canvas has returned a canvas; const pageHpx = ...; let y = 0
InitSlice ==
    /\ canvas \in [width : 1..MaxCanvasW, height : 0..MaxCanvasH]
    /\ pageHpx = PageHpx(canvas.width)
    /\ y = 0
    /\ slices = <<>>
    /\ pdfPages = 0
    /\ slicing = "loop"

\* one pass of the while loop: the slice is copied, embedded and drawn on a
\* new page, and y += sliceH
SliceDrawn ==
    /\ slicing = "loop"
    /\ y < canvas.height
    /\ slices' = Append(slices, [y |-> y, height |-> SliceH(pageHpx, canvas.height, y)])
    /\ pdfPages' = pdfPages + 1
    /\ y' = y + SliceH(pageHpx, canvas.height, y)
    /\ UNCHANGED <<canvas, pageHpx, slicing>>

\* await pdf.embedPng(bytes) rejects: the exception leaves the loop for the
\* catch of exportPdfWithAgb
EmbedThrows ==
    /\ slicing = "loop"
    /\ y < canvas.height
    /\ slicing' = "thrown"
    /\ UNCHANGED <<canvas, pageHpx, y, slices, pdfPages>>

\* while (y < fullH) is false: the loop is left
LoopLeft ==
    /\ slicing = "loop"
    /\ ~(y < canvas.height)
    /\ slicing' = "sliced"
    /\ UNCHANGED <<canvas, pageHpx, y, slices, pdfPages>>

\* ceil(a / b) for b > 0
CeilDiv(a, b) == (a + b - 1) \div b

RECURSIVE SumHeights(_)
SumHeights(ss) == IF ss = <<>> THEN 0 ELSE ss[1].height + SumHeights(Tail(ss))

\* the slices start at 0 and follow each other without gap or overlap up to
\* y, and each has a height between 1 and the page height
SlicesPartition(ss, pHpx, upTo) ==
    /\ \A i \in 1..Len(ss) :
           /\ ss[i].y = (IF i = 1 THEN 0 ELSE ss[i - 1].y + ss[i - 1].height)
           /\ ss[i].height >= 1 /\ ss[i].height <= pHpx
    /\ SumHeights(ss) = upTo

\* at every point of the loop the slices partition the part of the canvas
\* above y and one page was added for each, and when the loop is left they
\* partition the canvas height, in ceil(height / page height) pages
SlicesRight ==
    /\ pageHpx >= 1
    /\ SlicesPartition(slices, pageHpx, y)
    /\ pdfPages = Len(slices)
    /\ y <= canvas.height
    /\ slicing = "sliced" =>
           /\ y = canvas.height
           /\ pdfPages = CeilDiv(canvas.height, pageHpx)

\* C26: the page-slicing loop ends for every canvas of width at least 1 and
\* any height; the slices start at y = 0, are contiguous and do not overlap,
\* each is between 1 pixel and one page high, their heights sum to the canvas
\* height, and ceil(height / page height) pages are added
C26_SlicingEndsWithPartition == [](SlicesRight) /\ <>(slicing # "loop")

\* a canvas of width 2 and height 5 was cut into the slices 0..2, 2..4, 4..5
C26_Witness ==
    /\ slicing = "sliced" /\ canvas = [width |-> 2, height |-> 5] /\ pageHpx = 2
    /\ slices = <<[y |-> 0, height |-> 2], [y |-> 2, height |-> 2], [y |-> 4, height |-> 1]>>
    /\ pdfPages = 3

(***************************************************************************)
(* loadScriptOnce: the scripts html2canvas and pdf-lib are loaded on       *)
(* demand by a script element in document.head.                            *)
(***************************************************************************)
MaxLoadCalls == 3

\* the two libraries exportPdfWithAgb loads
ScriptSrcs == {"html2canvas.min.js", "pdf-lib.min.js"}

ScriptElement(src, state) == [src |-> src, state |-> state]

\* document.querySelector(`script[src="${src}"]`): is there such an element
QuerySelector(elements, src) == \E i \in 1..Len(elements) : elements[i].src = src

\* a lookup that finds only elements whose script has been loaded
QuerySelectorLoaded(elements, src) ==
    \E i \in 1..Len(elements) : elements[i].src = src /\ elements[i].state = "loaded"

\* no script element yet, no call made
InitLoad ==
    /\ head = <<>>
    /\ loadCalls = [c \in 1..MaxLoadCalls |-> [st |-> "none"]]

\* loadScriptOnce(src): with an element of this src in the document the call
\* returns at once; otherwise it appends a new element and waits for its
\* onload or onerror
LoadScriptOnce(c, src) ==
    /\ loadCalls[c].st = "none"
    /\ IF QuerySelector(head, src)
       THEN /\ loadCalls' = [loadCalls EXCEPT ![c] = [st |-> "resolved", src |-> src]]
            /\ UNCHANGED head
       ELSE /\ loadCalls' = [loadCalls EXCEPT ![c] =
                                [st |-> "pending", src |-> src, element |-> Len(head) + 1]]
            /\ head' = Append(head, ScriptElement(src, "loading"))

\* the script of element i has been loaded: s.onload = () => resolve()
OnLoad(i) ==
    /\ i \in 1..Len(head) /\ head[i].state = "loading"
    /\ head' = [head EXCEPT ![i].state = "loaded"]
    /\ loadCalls' = [c \in 1..MaxLoadCalls |->
                        IF loadCalls[c].st = "pending" /\ loadCalls[c].element = i
                        THEN [st |-> "resolved", src |-> loadCalls[c].src]
                        ELSE loadCalls[c]]

\* the script of element i could not be loaded: s.onerror = () => reject(...)
OnError(i) ==
    /\ i \in 1..Len(head) /\ head[i].state = "loading"
    /\ head' = [head EXCEPT ![i].state = "failed"]
    /\ loadCalls' = [c \in 1..MaxLoadCalls |->
                        IF loadCalls[c].st = "pending" /\ loadCalls[c].element = i
                        THEN [st |-> "rejected", src |-> loadCalls[c].src]
                        ELSE loadCalls[c]]

\* the number of script elements with this src
RECURSIVE ElementsOf(_, _)
ElementsOf(elements, src) ==
    IF elements = <<>> THEN 0
    ELSE (IF elements[1].src = src THEN 1 ELSE 0) + ElementsOf(Tail(elements), src)

\* C27: there is at most one script element per URL, and a call of
\* loadScriptOnce that has resolved has its script loaded, also a call made
\* while an earlier load of the URL was pending or after it had failed
C27_OneElementAndResolvedMeansLoaded ==
    /\ \A src \in ScriptSrcs : ElementsOf(head, src) <= 1
    /\ \A c \in 1..MaxLoadCalls :
           loadCalls[c].st = "resolved" =>
               QuerySelectorLoaded(head, loadCalls[c].src)

(***************************************************************************)
(* App: the effect of [session] loads the project list.                    *)
(***************************************************************************)
MaxSessions == 3

\* a session: the one of the k-th sign-in or token refresh
SessionOf(k) == [user |-> k]

\* what fetchProjects returns for a request made under session s: the
\* projects this session may read
ProjectsOf(s) == <<[id |-> s.user]>>

\* the state after the first render: useState(null), useState([]),
\* useState(true), useState(null); the effect of [session] is due
InitApp ==
    /\ session = Null
    /\ projectList = <<>>
    /\ loading = TRUE
    /\ appError = FALSE
    /\ effectDue = TRUE
    /\ runs = <<>>
    /\ nSessions = 0

\* setSession(s), from getSession or from onAuthStateChange, and the render
\* that follows; the effects of one render run before the next render
SetSession(s) ==
    /\ ~effectDue
    /\ s # session
    /\ s = Null \/ (nSessions < MaxSessions /\ s = SessionOf(nSessions + 1))
    /\ session' = s
    /\ nSessions' = IF s = Null THEN nSessions ELSE nSessions + 1
    /\ effectDue' = TRUE
    /\ UNCHANGED <<projectList, loading, appError, runs>>

\* the cleanup of the earlier run: mounted = false
Cleanup(rs) == [i \in 1..Len(rs) |-> [rs[i] EXCEPT !.mounted = FALSE]]

\* the effect of [session] runs: cleanup of the run before, let mounted = true,
\* then without a session setProjects([]) and setLoading(false), with one
\* setLoading(true) and the call of fetchProjects
RunEffect ==
    /\ effectDue
    /\ effectDue' = FALSE
    /\ IF session = Null
       THEN /\ projectList' = <<>>
            /\ loading' = FALSE
            /\ runs' = Append(Cleanup(runs), [session |-> session, mounted |-> TRUE, st |-> "done"])
       ELSE /\ loading' = TRUE
            /\ runs' = Append(Cleanup(runs), [session |-> session, mounted |-> TRUE, st |-> "fetching"])
            /\ UNCHANGED projectList
    /\ UNCHANGED <<session, appError, nSessions>>

\* a response that is stored whether or not the run was cleaned up
StoredAlways(run, data, list) == data

\* if (mounted) setProjects(data)
StoredIfMounted(run, data, list) == IF run.mounted THEN data ELSE list

\* finally { if (mounted) setLoading(false) }
LoadingAfter(run, l) == IF run.mounted THEN FALSE ELSE l

\* fetchProjects of run r returns its rows
FetchResolved(r) ==
    /\ r \in 1..Len(runs) /\ runs[r].st = "fetching"
    /\ projectList' = StoredIfMounted(runs[r], ProjectsOf(runs[r].session), projectList)
    /\ loading' = LoadingAfter(runs[r], loading)
    /\ runs' = [runs EXCEPT ![r].st = IF runs[r].mounted THEN "done" ELSE "ignored"]
    /\ UNCHANGED <<session, appError, effectDue, nSessions>>

\* fetchProjects of run r throws: setErrorMsg(...), then the finally block
FetchRejected(r) ==
    /\ r \in 1..Len(runs) /\ runs[r].st = "fetching"
    /\ appError' = TRUE
    /\ loading' = LoadingAfter(runs[r], loading)
    /\ runs' = [runs EXCEPT ![r].st = "done"]
    /\ UNCHANGED <<session, projectList, effectDue, nSessions>>

\* the effect has run for the session App holds
EffectRan == ~effectDue

\* without a session, once the effect has run, the list is empty and loading
\* is false: no response of an earlier run is stored any more
SignedOutEmpty == (session = Null /\ EffectRan) => (projectList = <<>> /\ ~loading)

\* C28: after the session has become null the project list is set to empty and
\* loading to false, and no response of a fetchProjects call made under an
\* earlier session is stored after that; whatever the session changes, loading
\* becomes false in the end
C28_SignedOutListEmptyAndLoadingEnds ==
    /\ [](SignedOutEmpty)
    /\ (session = Null ~> (EffectRan /\ projectList = <<>> /\ ~loading))
    /\ <>[](~loading)

\* the user has signed out while fetchProjects was in flight; its response has
\* arrived since and the list is empty
C28_Witness ==
    /\ session = Null /\ EffectRan /\ projectList = <<>> /\ ~loading
    /\ \E r \in 1..Len(runs) :
           runs[r].session # Null /\ runs[r].st = "ignored"
    /\ Len(runs) = 3

(***************************************************************************)
(* Specifications.  Each one opens one area of the application; the state  *)
(* of the other areas stays as it is.                                       *)
(***************************************************************************)
notCode == <<profitVars, dashVars, panelVars, numVars, quoteVars, timeVars, getQuoteVars, sliceVars, loadVars, appVars>>
notProfit == <<codeVars, dashVars, panelVars, numVars, quoteVars, timeVars, getQuoteVars, sliceVars, loadVars, appVars>>
notDash == <<codeVars, profitVars, panelVars, numVars, quoteVars, timeVars, getQuoteVars, sliceVars, loadVars, appVars>>
notPanel == <<codeVars, profitVars, dashVars, numVars, quoteVars, timeVars, getQuoteVars, sliceVars, loadVars, appVars>>
notNum == <<codeVars, profitVars, dashVars, panelVars, quoteVars, timeVars, getQuoteVars, sliceVars, loadVars, appVars>>
notQuote == <<codeVars, profitVars, dashVars, panelVars, numVars, timeVars, getQuoteVars, sliceVars, loadVars, appVars>>
notTime == <<codeVars, profitVars, dashVars, panelVars, numVars, quoteVars, getQuoteVars, sliceVars, loadVars, appVars>>
notGetQuote == <<codeVars, profitVars, dashVars, panelVars, numVars, quoteVars, timeVars, sliceVars, loadVars, appVars>>
notSlice == <<codeVars, profitVars, dashVars, panelVars, numVars, quoteVars, timeVars, getQuoteVars, loadVars, appVars>>
notLoad == <<codeVars, profitVars, dashVars, panelVars, numVars, quoteVars, timeVars, getQuoteVars, sliceVars, appVars>>
notApp == <<codeVars, profitVars, dashVars, panelVars, numVars, quoteVars, timeVars, getQuoteVars, sliceVars, loadVars>>

\* SpecNextCode: one form deriving its code from a table of stored codes
InitNextCode == InitCode(Tables(MaxRows), {FALSE}) /\ NoProfit /\ NoDash /\ NoPanel /\ NoNum /\ NoQuote /\ NoTime /\ NoGetQuote /\ NoSlice /\ NoLoad /\ NoApp

NextNextCode ==
    \/ \E kd \in {"mount", "recalc"} : QueryServe(1, kd) /\ UNCHANGED notCode
    \/ \E kd \in {"mount", "recalc"} : CodeResult(1, kd) /\ UNCHANGED notCode
    \/ RecalcCode(1) /\ UNCHANGED notCode

SpecNextCode == InitNextCode /\ [][NextNextCode]_vars

\* SpecManyCodes: one form deriving its code from a table with about as many
\* codes of the year as the query reads
InitSpecManyCodes == InitCode(ManyTables, {FALSE}) /\ NoProfit /\ NoDash /\ NoPanel /\ NoNum /\ NoQuote /\ NoTime /\ NoGetQuote /\ NoSlice /\ NoLoad /\ NoApp

SpecManyCodes == InitSpecManyCodes /\ [][NextNextCode]_vars

\* SpecCode: two users create projects through CreateProjectForm
InitSpecCode == InitCode({<<>>}, BOOLEAN) /\ NoProfit /\ NoDash /\ NoPanel /\ NoNum /\ NoQuote /\ NoTime /\ NoGetQuote /\ NoSlice /\ NoLoad /\ NoApp

NextCode ==
    \E c \in Forms :
        \/ \E kd \in {"mount", "submit"} : QueryServe(c, kd) /\ UNCHANGED notCode
        \/ CodeResult(c, "mount") /\ UNCHANGED notCode
        \/ TypeName(c) /\ UNCHANGED notCode
        \/ Submit(c) /\ UNCHANGED notCode
        \/ InsertServe(c) /\ UNCHANGED notCode
        \/ InsertDone(c) /\ UNCHANGED notCode
        \/ SubmitCodeResult(c) /\ UNCHANGED notCode

SpecCode == InitSpecCode /\ [][NextCode]_vars

\* SpecProfit: the ProfitabilityPanel of an open project
InitSpecProfit == InitProfit /\ NoCode /\ NoDash /\ NoPanel /\ NoNum /\ NoQuote /\ NoTime /\ NoGetQuote /\ NoSlice /\ NoLoad /\ NoApp

NextProfit ==
    \/ \E field \in FinFields, v \in NumberInputValues :
           SetFin(field, v) /\ UNCHANGED notProfit
    \/ TimeFetchServe /\ UNCHANGED notProfit
    \/ TimeSumResult /\ UNCHANGED notProfit

SpecProfit == InitSpecProfit /\ [][NextProfit]_vars

\* SpecBom: ProjectDetail loads the bom of a project
InitSpecBom == InitBom /\ NoCode /\ NoDash /\ NoPanel /\ NoNum /\ NoQuote /\ NoTime /\ NoGetQuote /\ NoSlice /\ NoLoad /\ NoApp

NextBom ==
    \/ BomFetchServe /\ UNCHANGED notProfit
    \/ BomLoaded /\ UNCHANGED notProfit
    \/ TimeFetchServe /\ UNCHANGED notProfit
    \/ TimeSumResult /\ UNCHANGED notProfit

SpecBom == InitSpecBom /\ [][NextBom]_vars

\* SpecNum: one call of num
InitSpecNum == InitNum /\ NoCode /\ NoProfit /\ NoDash /\ NoPanel /\ NoQuote /\ NoTime /\ NoGetQuote /\ NoSlice /\ NoLoad /\ NoApp

NextNum == NumReturn /\ UNCHANGED notNum

SpecNum == InitSpecNum /\ [][NextNum]_vars

\* SpecStatus: the project lists of the dashboard
InitSpecStatus == InitDash /\ NoCode /\ NoProfit /\ NoPanel /\ NoNum /\ NoQuote /\ NoTime /\ NoGetQuote /\ NoSlice /\ NoLoad /\ NoApp

NextStatus ==
    \/ \E status \in StatusValues : HandleCreated(status) /\ UNCHANGED notDash
    \/ \E id \in 1..MaxDash, status \in StatusValues :
           HandleUpdated(id, status) /\ UNCHANGED notDash
    \/ \E tab \in {"active", "archive"} : SetProjTab(tab) /\ UNCHANGED notDash

SpecStatus == InitSpecStatus /\ [][NextStatus]_vars

\* SpecPanel: one row panel and the store
InitSpecPanel == InitPanel /\ NoCode /\ NoProfit /\ NoDash /\ NoNum /\ NoQuote /\ NoTime /\ NoGetQuote /\ NoSlice /\ NoLoad /\ NoApp

NextPanel ==
    \/ Create /\ UNCHANGED notPanel
    \/ \E id \in 1..(MaxStored + MaxOps), val \in Vals : Patch(id, val) /\ UNCHANGED notPanel
    \/ \E id \in 1..(MaxStored + MaxOps) : Remove(id) /\ UNCHANGED notPanel
    \/ \E c \in calls : ServeOk(c) /\ UNCHANGED notPanel
    \/ \E c \in calls : ServeError(c) /\ UNCHANGED notPanel
    \/ \E c \in calls : DeliverOk(c) /\ UNCHANGED notPanel
    \/ \E c \in calls : DeliverError(c) /\ UNCHANGED notPanel

SpecPanel == InitSpecPanel /\ [][NextPanel]_vars

InitSpecQuote == InitQuote /\ NoCode /\ NoProfit /\ NoDash /\ NoPanel /\ NoNum /\ NoTime /\ NoGetQuote /\ NoSlice /\ NoLoad /\ NoApp
NextQuote ==
    \/ Reload /\ UNCHANGED notQuote
    \/ PatchItem /\ UNCHANGED notQuote
    \/ PatchHeader /\ UNCHANGED notQuote
SpecQuote == InitSpecQuote /\ [][NextQuote]_vars

InitSpecTime == InitTime /\ NoCode /\ NoProfit /\ NoDash /\ NoPanel /\ NoNum /\ NoQuote /\ NoGetQuote /\ NoSlice /\ NoLoad /\ NoApp
NextTime ==
    \/ TimeReload /\ UNCHANGED notTime
    \/ TimeAdd /\ UNCHANGED notTime
    \/ TimePatch /\ UNCHANGED notTime
    \/ ProjectRateSaved /\ UNCHANGED notTime
SpecTime == InitSpecTime /\ [][NextTime]_vars

\* the row panels when the store carries out every call
NextPanelOk ==
    \/ Create /\ UNCHANGED notPanel
    \/ \E id \in 1..(MaxStored + MaxOps), val \in Vals : Patch(id, val) /\ UNCHANGED notPanel
    \/ \E id \in 1..(MaxStored + MaxOps) : Remove(id) /\ UNCHANGED notPanel
    \/ \E c \in calls : ServeOk(c) /\ UNCHANGED notPanel
    \/ \E c \in calls : DeliverOk(c) /\ UNCHANGED notPanel

SpecPanelOk == InitSpecPanel /\ [][NextPanelOk]_vars

\* the row panels when rows are only edited and removed, and the store
\* carries out every call
NextPanelEdits ==
    \/ \E id \in 1..MaxStored, val \in Vals : Patch(id, val) /\ UNCHANGED notPanel
    \/ \E id \in 1..MaxStored : Remove(id) /\ UNCHANGED notPanel
    \/ \E c \in calls : ServeOk(c) /\ UNCHANGED notPanel
    \/ \E c \in calls : DeliverOk(c) /\ UNCHANGED notPanel

SpecPanelEdits == InitSpecPanel /\ [][NextPanelEdits]_vars

InitSpecGetQuote == InitGetQuote /\ NoCode /\ NoProfit /\ NoDash /\ NoPanel /\ NoNum /\ NoQuote /\ NoTime /\ NoSlice /\ NoLoad /\ NoApp
NextGetQuote ==
    \/ \E c \in 1..MaxQuoteCalls : CallGetOrCreateQuote(c) /\ UNCHANGED notGetQuote
    \/ \E c \in 1..MaxQuoteCalls : SelectServed(c) /\ UNCHANGED notGetQuote
    \/ \E c \in 1..MaxQuoteCalls : InsertServed(c) /\ UNCHANGED notGetQuote
    \/ \E c \in 1..MaxQuoteCalls : InsertFailed(c) /\ UNCHANGED notGetQuote
SpecGetQuote == InitSpecGetQuote /\ [][NextGetQuote]_vars

InitSpecSlice == InitSlice /\ NoCode /\ NoProfit /\ NoDash /\ NoPanel /\ NoNum /\ NoQuote /\ NoTime /\ NoGetQuote /\ NoLoad /\ NoApp
NextSlice ==
    \/ SliceDrawn /\ UNCHANGED notSlice
    \/ EmbedThrows /\ UNCHANGED notSlice
    \/ LoopLeft /\ UNCHANGED notSlice
\* the loop body and the loop test run as soon as the awaited promise is
\* settled: no step of the loop waits for ever
SpecSlice == InitSpecSlice /\ [][NextSlice]_vars /\ WF_vars(NextSlice)

InitSpecLoad == InitLoad /\ NoCode /\ NoProfit /\ NoDash /\ NoPanel /\ NoNum /\ NoQuote /\ NoTime /\ NoGetQuote /\ NoSlice /\ NoApp
NextLoad ==
    \/ \E c \in 1..MaxLoadCalls, src \in ScriptSrcs : LoadScriptOnce(c, src) /\ UNCHANGED notLoad
    \/ \E i \in 1..MaxLoadCalls : OnLoad(i) /\ UNCHANGED notLoad
    \/ \E i \in 1..MaxLoadCalls : OnError(i) /\ UNCHANGED notLoad
SpecLoad == InitSpecLoad /\ [][NextLoad]_vars

InitSpecApp == InitApp /\ NoCode /\ NoProfit /\ NoDash /\ NoPanel /\ NoNum /\ NoQuote /\ NoTime /\ NoGetQuote /\ NoSlice /\ NoLoad
NextApp ==
    \/ \E s \in {Null} \cup {SessionOf(k) : k \in 1..MaxSessions} : SetSession(s) /\ UNCHANGED notApp
    \/ RunEffect /\ UNCHANGED notApp
    \/ \E r \in 1..(2 * MaxSessions + 1) : FetchResolved(r) /\ UNCHANGED notApp
    \/ \E r \in 1..(2 * MaxSessions + 1) : FetchRejected(r) /\ UNCHANGED notApp
\* React runs the effects of a render, and every fetchProjects call settles
FetchSettles == \E r \in 1..(2 * MaxSessions + 1) : FetchResolved(r) \/ FetchRejected(r)
SpecApp ==
    /\ InitSpecApp /\ [][NextApp]_vars
    /\ WF_vars(RunEffect /\ UNCHANGED notApp)
    /\ WF_vars(FetchSettles /\ UNCHANGED notApp)

=============================================================================
